---- MODULE Spec2Model ----
(***************************************************************************)
(* State-machine model of the SintOlogy web consumers:                     *)
(*   - web/app.js            the explorer page (views, filters, search,    *)
(*                           exports, question answering)                  *)
(*   - web/text-analysis.js  the text-analysis page (worker version)       *)
(*   - web/text-analysis-worker.js                                         *)
(* and of the pipeline they depend on, which the design document describes *)
(*   - scripts/generate_ontology.py  ERD source -> ontology, schema        *)
(*   - scripts/ingest.py             the Instance Validator, batch loads   *)
(* JavaScript strings are TLA+ strings; String methods are the operators   *)
(* of the first section.  null/undefined objects are the record Null; a    *)
(* null or absent string is "" wherever the code only tests truthiness.    *)
(***************************************************************************)
EXTENDS Integers, Sequences, FiniteSets, TLC

VARIABLES
  \* ---- app.js ----
  initPc,          \* position of init(): "fetching", "loaded", "failed"
  state,           \* the state object: ontology, graph, view, filter,
                   \* focusId ("" is null), searchTerm, searchDepth
  rendered,        \* what render() last put into graphView / tableView
  status,          \* statusEl.textContent (by kind of message)
  out,             \* what the last handler handed to the outside (download, alert, error)
  \* ---- app.js, question answering ----
  askBtnDisabled,  \* askBtn.disabled
  qaPipeline,      \* qaPipeline is not null
  pipeline,        \* pipeline (the Transformers.js factory) is not null
  transformersPromise, \* "null", "pending", "fulfilled"
  qaCall,          \* the answerQuestion() calls: position, consent, context
  modals,          \* consent modals in document.body, in document order
  btnHandler,      \* per modal: the call whose closures its two buttons' onclick hold (0: none)
  \* ---- the browser tab ----
  page,            \* the page the tab has loaded: "explorer" or "text-analysis"
  \* ---- text-analysis.js and text-analysis-worker.js ----
  ta,              \* the text-analysis page and its worker (fields: see TAInit)
  \* ---- generate_ontology.py, ingest.py and the files they share ----
  gen,             \* the generator run, the artifact files, the store (fields: see GenIdle)
  \* ---- text-analysis.js, post-processing functions taken alone ----
  call             \* one call of a post-processing function: its arguments, then its result

explorerVars == <<initPc, state, rendered, status, out>>
qaVars == <<askBtnDisabled, qaPipeline, pipeline, transformersPromise, qaCall,
            modals, btnHandler>>

taVars == <<page, ta>>

genVars == <<gen>>

callVars == <<call>>

vars == <<explorerVars, qaVars, taVars, genVars, callVars>>

(***************************************************************************)
(* JavaScript values and String methods                                    *)
(***************************************************************************)
Null == [null |-> TRUE]

\* no post-processing function is called on its own
NoCall == [pc |-> "none"]
CallInit == call = NoCall

\* Op(v), with v evaluated once: `const x = v; ... x ... x ...`
With(v, Op(_)) == CHOOSE r \in {Op(x) : x \in {v}} : TRUE

Min(a, b) == IF a < b THEN a ELSE b
Max(a, b) == IF a > b THEN a ELSE b

Range(s) == {s[i] : i \in 1..Len(s)}

\* String.prototype.substring(a, b) for a <= b (0-based, end exclusive, clamped).
Substring(s, a, b) ==
  IF Min(Max(a, 0), Len(s)) >= Min(Max(b, 0), Len(s)) THEN ""
  ELSE SubSeq(s, Max(a, 0) + 1, Min(b, Len(s)))

UpperChars == "ABCDEFGHIJKLMNOPQRSTUVWXYZ"
LowerChars == "abcdefghijklmnopqrstuvwxyz"

CharAt(s, i) == SubSeq(s, i, i)

\* position of character c in the alphabet
IndexIn(alphabet, c) == CHOOSE i \in 1..Len(alphabet) : CharAt(alphabet, i) = c

LowerOf ==
  [c \in {CharAt(UpperChars, i) : i \in 1..Len(UpperChars)} |->
     CharAt(LowerChars, IndexIn(UpperChars, c))]

\* the position of the first upper-case letter of s, 0 when there is none
FirstUpper(s) ==
  With({i \in 1..Len(s) : CharAt(s, i) \in DOMAIN LowerOf},
       LAMBDA uppers : IF uppers = {} THEN 0
                       ELSE CHOOSE k \in uppers : \A j \in uppers : k <= j)

\* String.prototype.toLowerCase (ASCII): every upper-case letter is replaced.
RECURSIVE ToLower(_)
ToLower(s) ==
  With(FirstUpper(s),
       LAMBDA i : IF i = 0 THEN s
                  ELSE Substring(s, 0, i - 1) \o LowerOf[CharAt(s, i)]
                       \o ToLower(Substring(s, i, Len(s))))

\* String.prototype.includes.
Includes(s, t) ==
  \E i \in 0..(Len(s) - Len(t)) : Substring(s, i, i + Len(t)) = t

\* String.prototype.trim (blanks).
RECURSIVE TrimStart(_)
TrimStart(s) ==
  IF Len(s) > 0 /\ CharAt(s, 1) = " " THEN TrimStart(Substring(s, 1, Len(s))) ELSE s
RECURSIVE TrimEnd(_)
TrimEnd(s) ==
  IF Len(s) > 0 /\ CharAt(s, Len(s)) = " " THEN TrimEnd(Substring(s, 0, Len(s) - 1)) ELSE s
Trim(s) == TrimEnd(TrimStart(s))

\* a || b on strings.
OrElse(a, b) == IF a # "" THEN a ELSE b

\* n copies of "x": filler text of a given length.
RECURSIVE Pad(_)
Pad(n) ==
  IF n <= 0 THEN ""
  ELSE IF n % 2 = 0 THEN With(Pad(n \div 2), LAMBDA h : h \o h)
  ELSE "x" \o Pad(n - 1)

\* The distinct elements of a sequence, in order of first occurrence
\* (the key order of an object filled in that order).
RECURSIVE Distinct(_)
Distinct(s) ==
  IF s = <<>> THEN <<>>
  ELSE With(Distinct(SubSeq(s, 1, Len(s) - 1)),
            LAMBDA init : IF s[Len(s)] \in Range(init) THEN init
                          ELSE Append(init, s[Len(s)]))

(***************************************************************************)
(* app.js: program constants                                               *)
(***************************************************************************)
maxDepthSentinel == 6
MAX_CONTEXT_LENGTH == 2000
\* Number.POSITIVE_INFINITY as a value of state.searchDepth.
Infinity == -1
UniversalDomain == "owl:Thing"

(***************************************************************************)
(* Documents the page can load: /ontology/ontology.json, /data/graph.json  *)
(***************************************************************************)
Class(name, label) == [name |-> name, label |-> label]
Prop(name, kind, domain) == [name |-> name, kind |-> kind, domain |-> domain]
\* a property entry that carries no "domain" key
PropNoDomain(name, kind) == [name |-> name, kind |-> kind]
Node(id, class, properties) == [id |-> id, class |-> class, properties |-> properties]
Edge(id, type, from, to) == [id |-> id, type |-> type, from |-> from, to |-> to]

SchemaA ==
  [classes |-> << Class("Person", "Person"),
                  Class("Organisation", "Organisation"),
                  Class("SocialMediaProfile", "Social Media Profile") >>,
   properties |-> << Prop("id", "datatype", <<UniversalDomain>>),
                     Prop("fullName", "datatype", <<"Person">>),
                     Prop("name", "datatype", <<"Organisation">>),
                     PropNoDomain("note", "datatype"),
                     Prop("memberOf", "object", <<"Person">>),
                     Prop("handle", "datatype", <<"SocialMediaProfile">>),
                     Prop("owns", "object", <<"Person", "Organisation">>) >>]

\* a chain s_0001 - p_0001 - o_0001 - c_0001 with a self-loop on o_0001, a node
\* of a class the schema does not list, and an edge to a node that is not there
GraphChain ==
  [nodes |-> << Node("p_0001", "Person", << <<"fullName", "Alex Parker">> >>),
                Node("o_0001", "Organisation", << <<"name", "Org, \"One\"">> >>),
                Node("s_0001", "SocialMediaProfile",
                     << <<"platform", "X">>, <<"handle", "@alex">> >>),
                Node("c_0001", "Campaign", << <<"campaignType", "rally">> >>) >>,
   edges |-> << Edge("e_0001", "memberOf", "p_0001", "o_0001"),
                Edge("e_0002", "owns", "p_0001", "s_0001"),
                Edge("e_0003", "targets", "c_0001", "o_0001"),
                Edge("e_0004", "splintersInto", "o_0001", "o_0001"),
                Edge("e_0005", "owns", "p_0001", "s_0009") >>]

Schemas == {SchemaA}

\* Schema documents for the table view: the classes of SchemaA with up to
\* MaxProps property entries, in any order, out of PropertyPool.
MaxProps == 2
PropertyPool ==
  { Prop("id", "datatype", <<UniversalDomain>>),
    Prop("fullName", "datatype", <<"Person">>),
    Prop("alias", "datatype", <<"Organisation", "Person">>),
    Prop("tag", "datatype", <<>>),
    PropNoDomain("note", "datatype"),
    Prop("memberOf", "object", <<"Person">>),
    Prop("relatedTo", "object", <<UniversalDomain>>) }
TableSchemas ==
  {[classes |-> SchemaA.classes, properties |-> properties] :
     properties \in UNION {[1..n -> PropertyPool] : n \in 0..MaxProps}}
Graphs == {GraphChain}

\* a graph whose Person node carries a note of k characters
GraphNote(k) ==
  [nodes |-> << Node("p_0001", "Person",
                     << <<"fullName", "Alex Parker">>, <<"note", Pad(k)>> >>),
                Node("o_0001", "Organisation", << <<"name", "Org One">> >>) >>,
   edges |-> << Edge("e_0001", "memberOf", "p_0001", "o_0001") >>]

\* note lengths around MAX_CONTEXT_LENGTH: the context of the whole graph is
\* 209 + k characters long (163 + k before "Relationships:"), that of its
\* Person node alone 113 + k
NoteLengths == {1, 1836, 1837, 1888}
LongGraphs == {GraphNote(k) : k \in NoteLengths}

\* what the user can type into the search box, and set the depth slider to
SearchInputs == {"", " @Alex ", "zz"}
DepthInputs == {0, maxDepthSentinel}
Views == {"graph", "table"}

(***************************************************************************)
(* app.js: pure helpers over state.ontology / state.graph                  *)
(***************************************************************************)
\* node.properties[key], "" when absent
PropValue(node, key) ==
  With({i \in 1..Len(node.properties) : node.properties[i][1] = key},
       LAMBDA hits : IF hits = {} THEN ""
                     ELSE node.properties[CHOOSE i \in hits : TRUE][2])

\* Array.prototype.find: the first node with that id, Null when there is none
nodeById(s, id) ==
  With({i \in 1..Len(s.graph.nodes) : s.graph.nodes[i].id = id},
       LAMBDA hits : IF hits = {} THEN Null
                     ELSE s.graph.nodes[CHOOSE i \in hits : \A j \in hits : i <= j])

nodeLabel(node) ==
  IF node = Null THEN "Unknown"
  ELSE OrElse(PropValue(node, "name"),
       OrElse(PropValue(node, "fullName"),
       OrElse(PropValue(node, "handle"),
       OrElse(PropValue(node, "actionType"),
       OrElse(PropValue(node, "campaignType"),
       OrElse(PropValue(node, "platform"),
       OrElse(PropValue(node, "url"),
              Substring(node.id, 0, 6))))))))

\* the targets of the edges that leave id
neighborMapOutgoing(s, id) ==
  {s.graph.edges[i].to : i \in {j \in 1..Len(s.graph.edges) : s.graph.edges[j].from = id}}

\* neighborMap().get(id), {} when the map has no entry
neighborMap(s, id) ==
  {s.graph.edges[i].to : i \in {j \in 1..Len(s.graph.edges) : s.graph.edges[j].from = id}}
  \cup
  {s.graph.edges[i].from : i \in {j \in 1..Len(s.graph.edges) : s.graph.edges[j].to = id}}

\* the for loop of expandFromIds() from iteration `step` on
RECURSIVE expandLoop(_, _, _, _, _)
expandLoop(s, visited, frontier, step, maxSteps) ==
  IF step >= maxSteps THEN visited
  ELSE With((UNION {neighborMap(s, id) : id \in frontier}) \ visited,
            LAMBDA next : IF next = {} THEN visited
                          ELSE expandLoop(s, visited \cup next, next, step + 1, maxSteps))

expandFromIds(s, ids, depth) ==
  expandLoop(s, ids, ids, 0, IF depth = Infinity THEN Len(s.graph.edges) ELSE depth)

\* relatedNodeIds() when state.focusId is set (it returns null when it is not)
relatedNodeIds(s) == expandFromIds(s, {s.focusId}, 1)

\* values.some(value => String(value || "").toLowerCase().includes(term))
NodeMatches(node, term) ==
  \E value \in {node.class, node.id}
               \cup {node.properties[i][2] : i \in 1..Len(node.properties)} :
    Includes(ToLower(value), term)

\* searchMatches() when state.searchTerm is not empty (it returns null when it is)
searchMatches(s) ==
  With(ToLower(s.searchTerm),
       LAMBDA term :
         With(SelectSeq(s.graph.nodes, LAMBDA node : NodeMatches(node, term)),
              LAMBDA matches : [i \in 1..Len(matches) |-> matches[i].id]))

\* the ids kept when the search takes the place of the focus
viewIdSetSearchFirst(s, matches) ==
  IF Len(matches) > 0
  THEN expandFromIds(s, Range(matches), s.searchDepth)
  ELSE relatedNodeIds(s)

\* the ids filteredNodes() keeps when a focus or a search with matches is set
viewIdSet(s, matches) ==
  IF Len(matches) > 0
  THEN With(expandFromIds(s, Range(matches), s.searchDepth),
            LAMBDA expanded : IF s.focusId # ""
                              THEN relatedNodeIds(s) \cap expanded
                              ELSE expanded)
  ELSE relatedNodeIds(s)

filteredNodes(s) ==
  With(IF s.searchTerm # "" THEN searchMatches(s) ELSE <<>>,
       LAMBDA matches :
         With(IF s.focusId # "" \/ Len(matches) > 0
              THEN With(viewIdSet(s, matches),
                        LAMBDA idSet :
                          SelectSeq(s.graph.nodes, LAMBDA node : node.id \in idSet))
              ELSE s.graph.nodes,
              LAMBDA nodes :
                IF s.filter # "All"
                THEN SelectSeq(nodes, LAMBDA node : node.class = s.filter)
                ELSE nodes))

NodeIds(nodes) == {nodes[i].id : i \in 1..Len(nodes)}

\* filteredEdges() with `||` for `&&`: an edge with one end in the view passes
filteredEdgesEitherEnd(s, nodeIds) ==
  SelectSeq(s.graph.edges, LAMBDA edge : edge.from \in nodeIds \/ edge.to \in nodeIds)

filteredEdges(s, nodeIds) ==
  SelectSeq(s.graph.edges, LAMBDA edge : edge.from \in nodeIds /\ edge.to \in nodeIds)

\* prop.domain || []
PropDomain(prop) == IF "domain" \in DOMAIN prop THEN prop.domain ELSE <<>>

\* applicableProperties() without the universal sentinel
applicablePropertiesOwnDomain(s, className, kind) ==
  SelectSeq(s.ontology.properties,
            LAMBDA prop : prop.kind = kind /\ className \in Range(PropDomain(prop)))

applicableProperties(s, className, kind) ==
  SelectSeq(s.ontology.properties,
            LAMBDA prop : /\ prop.kind = kind
                          /\ \/ className \in Range(PropDomain(prop))
                             \/ UniversalDomain \in Range(PropDomain(prop)))

\* renderTables(): the header cells of the table of a class
tableColumns(s, className) ==
  With(applicableProperties(s, className, "datatype"),
       LAMBDA dataProps : <<"id">> \o [i \in 1..Len(dataProps) |-> dataProps[i].name])

(***************************************************************************)
(* app.js: question-answering context                                      *)
(***************************************************************************)
\* Object.entries(props).map(([key, value]) => `${key}: ${value}`).join(', ')
RECURSIVE propText(_)
propText(props) ==
  IF props = <<>> THEN ""
  ELSE props[1][1] \o ": " \o props[1][2]
       \o (IF Len(props) > 1 THEN ", " \o propText(Tail(props)) ELSE "")

NodeLine(node) ==
  With(propText(node.properties),
       LAMBDA text : "- " \o nodeLabel(node)
                     \o (IF text # "" THEN " (" \o text \o ")" ELSE "")
                     \o "\n")

EdgeLine(s, edge) ==
  "- " \o nodeLabel(nodeById(s, edge.from)) \o " " \o edge.type \o " "
  \o nodeLabel(nodeById(s, edge.to)) \o "\n"

\* The context under construction: its text, and for every node or edge line
\* appended so far the offset at which that line ends.
Item(kind, id, text) == [kind |-> kind, id |-> id, end |-> Len(text)]

AddLine(acc, kind, id, line) ==
  With(acc.text \o line,
       LAMBDA text : [text |-> text, items |-> Append(acc.items, Item(kind, id, text))])

\* nodesByClass[className].forEach(...)
RECURSIVE contextNodes(_, _)
contextNodes(acc, nodes) ==
  IF nodes = <<>> THEN acc
  ELSE contextNodes(
         IF Len(acc.text) > MAX_CONTEXT_LENGTH THEN acc
         ELSE AddLine(acc, "node", Head(nodes).id, NodeLine(Head(nodes))),
         Tail(nodes))

\* Object.keys(nodesByClass).forEach(...)
RECURSIVE contextClasses(_, _, _)
contextClasses(acc, classNames, nodes) ==
  IF classNames = <<>> THEN acc
  ELSE contextClasses(
         IF Len(acc.text) > MAX_CONTEXT_LENGTH THEN acc
         ELSE [contextNodes(
                 [acc EXCEPT !.text = @ \o Head(classNames) \o " entities:\n"],
                 SelectSeq(nodes, LAMBDA node : node.class = Head(classNames)))
               EXCEPT !.text = @ \o "\n"],
         Tail(classNames), nodes)

\* edges.forEach(...)
RECURSIVE contextEdges(_, _, _)
contextEdges(s, acc, edges) ==
  IF edges = <<>> THEN acc
  ELSE contextEdges(s,
         IF \/ Len(acc.text) > MAX_CONTEXT_LENGTH
            \/ nodeById(s, Head(edges).from) = Null
            \/ nodeById(s, Head(edges).to) = Null
         THEN acc
         ELSE AddLine(acc, "edge", Head(edges).id, EdgeLine(s, Head(edges))),
         Tail(edges))

ContextHeader == "The following entities are in the current view:\n\n"
TruncationMark == "\n...(truncated)"

\* "Add relationship information if space allows"
contextRelationships(s, listed, nodes) ==
  IF Len(listed.text) < MAX_CONTEXT_LENGTH
  THEN With(filteredEdges(s, NodeIds(nodes)),
            LAMBDA edges :
              IF Len(edges) > 0
              THEN contextEdges(s, [listed EXCEPT !.text = @ \o "Relationships:\n"], edges)
              ELSE listed)
  ELSE listed

\* "Truncate if still too long"
contextResult(full) ==
  IF Len(full.text) > MAX_CONTEXT_LENGTH
  THEN [context |-> Substring(full.text, 0, MAX_CONTEXT_LENGTH) \o TruncationMark,
        wasTruncated |-> TRUE, items |-> full.items]
  ELSE [context |-> full.text, wasTruncated |-> FALSE, items |-> full.items]

\* buildContextFromGraph() over the nodes filteredNodes() returned
contextOf(s, nodes) ==
  IF Len(nodes) = 0
  THEN [context |-> "No data available. Please adjust filters or load data.",
        wasTruncated |-> FALSE, items |-> <<>>]
  ELSE With(contextClasses([text |-> ContextHeader, items |-> <<>>],
                           Distinct([i \in 1..Len(nodes) |-> nodes[i].class]), nodes),
            LAMBDA listed :
              With(contextRelationships(s, listed, nodes),
                   LAMBDA full : contextResult(full)))

buildContextFromGraph(s) ==
  With(filteredNodes(s), LAMBDA nodes : contextOf(s, nodes))

(***************************************************************************)
(* app.js: rendering and exports                                           *)
(***************************************************************************)
NoOutput == [kind |-> "none"]
TypeError == [kind |-> "error", text |-> "TypeError"]
Alert(text) == [kind |-> "alert", text |-> text]
Download(file, payload) == [kind |-> "download", file |-> file, payload |-> payload]

NothingRendered == [view |-> "none", nodes |-> <<>>, edges |-> <<>>, tables |-> <<>>]

Ids(items) == [i \in 1..Len(items) |-> items[i].id]

renderGraph(s) ==
  With(filteredNodes(s),
       LAMBDA nodes :
         [view |-> "graph",
          nodes |-> Ids(nodes),
          edges |-> IF Len(nodes) = 0 THEN <<>>
                    ELSE Ids(filteredEdges(s, NodeIds(nodes))),
          tables |-> <<>>])

\* renderGraph(): the text under every node drawn, label.textContent = nodeLabel(node)
graphLabels(s) ==
  With(filteredNodes(s),
       LAMBDA nodes : [i \in 1..Len(nodes) |-> nodeLabel(nodes[i])])

\* flatten a sequence of sequences
RECURSIVE Concat(_)
Concat(seqs) == IF seqs = <<>> THEN <<>> ELSE Head(seqs) \o Concat(Tail(seqs))

\* the <section> renderTables() builds for a class
tableSection(s, className, visible) ==
  With(SelectSeq(visible, LAMBDA node : node.class = className),
       LAMBDA nodes :
         [class |-> className,
          columns |-> IF Len(nodes) = 0 THEN <<>> ELSE tableColumns(s, className),
          rows |-> Ids(nodes)])

renderTables(s) ==
  With(filteredNodes(s),
       LAMBDA visible :
         With(SelectSeq([i \in 1..Len(s.ontology.classes) |-> s.ontology.classes[i].name],
                        LAMBDA name : s.filter = "All" \/ name = s.filter),
              LAMBDA classes :
                With([i \in 1..Len(classes) |-> tableSection(s, classes[i], visible)],
                     LAMBDA tables :
                       [view |-> "table",
                        nodes |-> Concat([i \in 1..Len(tables) |-> tables[i].rows]),
                        edges |-> <<>>,
                        tables |-> tables])))

Rendering(s) == IF s.view = "graph" THEN renderGraph(s) ELSE renderTables(s)

\* render() after the handler left the state object as `s`: updateStatus() reads
\* state.ontology.classes and state.graph.nodes first and throws when either is null.
render(s) ==
  IF s.ontology = Null \/ s.graph = Null
  THEN /\ UNCHANGED <<rendered, status>>
       /\ out' = TypeError
  ELSE /\ rendered' = Rendering(s)
       /\ status' = "stats"
       /\ out' = NoOutput

exportGraphView(s) ==
  With(filteredNodes(s),
       LAMBDA nodes :
         IF Len(nodes) = 0
         THEN Alert("No nodes to export in the current view.")
         ELSE Download("sintology-graph-view.json",
                       [nodes |-> nodes, edges |-> filteredEdges(s, NodeIds(nodes))]))

\* order of UTF-16 code units, for the characters the documents use
CodeUnits == " \"#,-.0123456789:@ABCDEFGHIJKLMNOPQRSTUVWXYZ_abcdefghijklmnopqrstuvwxyz"

CodeOf ==
  [c \in {CharAt(CodeUnits, i) : i \in 1..Len(CodeUnits)} |-> IndexIn(CodeUnits, c)]

RECURSIVE StrLess(_, _)
StrLess(a, b) ==
  IF Len(b) = 0 THEN FALSE
  ELSE IF Len(a) = 0 THEN TRUE
  ELSE IF CharAt(a, 1) # CharAt(b, 1) THEN CodeOf[CharAt(a, 1)] < CodeOf[CharAt(b, 1)]
  ELSE StrLess(Substring(a, 1, Len(a)), Substring(b, 1, Len(b)))

\* Array.prototype.sort() of a set of distinct strings
RECURSIVE SortStrings(_)
SortStrings(S) ==
  IF S = {} THEN <<>>
  ELSE With(CHOOSE x \in S : \A y \in S \ {x} : StrLess(x, y),
            LAMBDA least : <<least>> \o SortStrings(S \ {least}))

\* text.replace(/"/g, '""')
RECURSIVE doubleQuotes(_)
doubleQuotes(text) ==
  IF Len(text) = 0 THEN ""
  ELSE (IF CharAt(text, 1) = "\"" THEN "\"\"" ELSE CharAt(text, 1))
       \o doubleQuotes(Substring(text, 1, Len(text)))

escapeCsv(text) ==
  IF Includes(text, "\"") \/ Includes(text, ",") \/ Includes(text, "\n")
  THEN "\"" \o doubleQuotes(text) \o "\""
  ELSE text

\* Array.prototype.join
RECURSIVE join(_, _)
join(cells, sep) ==
  IF cells = <<>> THEN ""
  ELSE cells[1] \o (IF Len(cells) > 1 THEN sep \o join(Tail(cells), sep) ELSE "")

\* the value exportTableView() writes for a column of a node
csvCell(node, col) ==
  escapeCsv(IF col = "class" THEN node.class
            ELSE IF col = "id" THEN node.id
            ELSE PropValue(node, col))

csvOf(nodes, columns) ==
  join(<<join(columns, ",")>>
       \o [i \in 1..Len(nodes) |->
             join([c \in 1..Len(columns) |-> csvCell(nodes[i], columns[c])], ",")],
       "\n")

exportTableView(s) ==
  With(filteredNodes(s),
       LAMBDA nodes :
         IF Len(nodes) = 0
         THEN Alert("No nodes to export in the current view.")
         ELSE With(<<"class", "id">>
                   \o SortStrings(UNION {{nodes[i].properties[k][1]
                                            : k \in 1..Len(nodes[i].properties)}
                                         : i \in 1..Len(nodes)}),
                   LAMBDA columns :
                     Download("sintology-table-view.csv", csvOf(nodes, columns))))

(***************************************************************************)
(* app.js: init() and the view handlers                                    *)
(***************************************************************************)
ExplorerInit ==
  /\ initPc = "fetching"
  /\ state = [ontology |-> Null, graph |-> Null, view |-> "graph", filter |-> "All",
              focusId |-> "", searchTerm |-> "", searchDepth |-> 2]
  /\ rendered = NothingRendered
  /\ status = ""
  /\ out = NoOutput

\* a handler that also stores what it filtered: state.graph.nodes = filteredNodes()
HandleStoringView(assigned) ==
  /\ \E s \in {assigned} :
       /\ state' = IF s.graph = Null THEN s
                   ELSE [s EXCEPT !.graph.nodes = filteredNodes(s)]
       /\ render(s)
  /\ UNCHANGED initPc
  /\ UNCHANGED <<qaVars, taVars, genVars, callVars>>

\* a handler that assigns to the state object and then calls render()
Handle(assigned) ==
  /\ \E s \in {assigned} :
       /\ state' = s
       /\ render(s)
  /\ UNCHANGED initPc
  /\ UNCHANGED <<qaVars, taVars, genVars, callVars>>

\* init(): both fetches resolved; buildFilter(); setView("graph")
InitLoaded(schemas, graphs) ==
  /\ initPc = "fetching"
  /\ initPc' = "loaded"
  /\ \E o \in schemas, g \in graphs :
       \E s \in {[state EXCEPT !.ontology = o, !.graph = g, !.view = "graph"]} :
         /\ state' = s
         /\ render(s)
  /\ UNCHANGED <<qaVars, taVars, genVars, callVars>>

\* init(): a fetch failed
InitFailed ==
  /\ initPc = "fetching"
  /\ initPc' = "failed"
  /\ status' = "Failed to load ontology or data."
  /\ out' = NoOutput
  /\ UNCHANGED <<state, rendered>>
  /\ UNCHANGED <<qaVars, taVars, genVars, callVars>>

FilterOptions(s) ==
  {"All"} \cup {s.ontology.classes[i].name : i \in 1..Len(s.ontology.classes)}

\* classFilter "change" listener, registered by buildFilter()
ClassFilterChange ==
  /\ initPc = "loaded"
  /\ \E value \in FilterOptions(state) \ {state.filter} :
       Handle([state EXCEPT !.filter = value])

\* searchInput "input" listener
SearchInput ==
  \E value \in SearchInputs : Handle([state EXCEPT !.searchTerm = Trim(value)])

\* depthRange "input" listener
DepthInput ==
  \E value \in DepthInputs :
    Handle([state EXCEPT !.searchDepth =
              IF value >= maxDepthSentinel THEN Infinity ELSE value])

\* "click" listener of a rendered node (graph view) or row (table view)
NodeClick ==
  \E id \in Range(rendered.nodes) : Handle([state EXCEPT !.focusId = id])

clearFilters ==
  Handle([state EXCEPT !.filter = "All", !.focusId = "", !.searchTerm = "",
                       !.searchDepth = 2])

\* "click" listener of a view-toggle button
setView ==
  \E v \in Views : Handle([state EXCEPT !.view = v])

\* viewOntologyBtn "click" listener: JSON.stringify(state.ontology) into the modal
ViewOntology ==
  /\ out' = [kind |-> "ontologyModal", content |-> state.ontology]
  /\ UNCHANGED <<initPc, state, rendered, status>>
  /\ UNCHANGED <<qaVars, taVars, genVars, callVars>>

\* exportViewBtn "click" listener
ExportView ==
  /\ out' = IF state.graph = Null THEN TypeError
            ELSE IF state.view = "graph" THEN exportGraphView(state)
            ELSE exportTableView(state)
  /\ UNCHANGED <<initPc, state, rendered, status>>
  /\ UNCHANGED <<qaVars, taVars, genVars, callVars>>

(***************************************************************************)
(* app.js: question answering                                              *)
(***************************************************************************)
\* answerQuestion() calls that can be outstanding at once
MaxCalls == 2
Calls == 1..MaxCalls

\* what the user can have typed into qaInput
Questions == {"", "  ", "Who is Alex Parker?"}

IdleCall == [pc |-> "idle", consent |-> "none", context |-> "", wasTruncated |-> FALSE]

QAInit ==
  /\ askBtnDisabled = FALSE
  /\ qaPipeline = FALSE
  /\ pipeline = FALSE
  /\ transformersPromise = "null"
  /\ qaCall = [c \in Calls |-> IdleCall]
  /\ modals = <<>>
  /\ btnHandler = [c \in Calls |-> 0]

Remove(seq, x) == SelectSeq(seq, LAMBDA y : y # x)

\* answerQuestion(): catch (alert, status) and finally (button)
qaCatch(c, message) ==
  /\ qaCall' = [qaCall EXCEPT ![c] = IdleCall]
  /\ out' = Alert("Error: " \o message)
  /\ status' = "Error processing question."
  /\ askBtnDisabled' = FALSE

\* answerQuestion() from the return of initQAPipeline() to `await pipeline(...)`:
\* the context goes to the model with the call, and stays in the closure with
\* wasTruncated; `disabled` is what askBtn.disabled is when it gets there
qaAsk(c, disabled) ==
  IF state.graph = Null
  THEN qaCatch(c, "TypeError")
  ELSE \E built \in {buildContextFromGraph(state)} :
          /\ qaCall' = [qaCall EXCEPT ![c] = [pc |-> "answering",
                                              consent |-> @.consent,
                                              context |-> built.context,
                                              wasTruncated |-> built.wasTruncated]]
          /\ status' = IF built.wasTruncated
                       THEN "Context was truncated due to length."
                       ELSE "Answering question..."
          /\ out' = [kind |-> "pipeline", context |-> built.context]
          /\ askBtnDisabled' = disabled

\* answerQuestion() up to its first await that waits for an event
answerQuestion(c) ==
  /\ qaCall[c].pc = "idle"
  /\ \E question \in Questions :
       IF Trim(question) = ""
       THEN /\ out' = Alert("Please enter a question.")
            /\ UNCHANGED <<status, qaVars>>
       ELSE IF qaPipeline
       THEN \* initQAPipeline() returns the loaded pipeline
            /\ qaAsk(c, TRUE)
            /\ UNCHANGED <<qaPipeline, pipeline, transformersPromise, modals, btnHandler>>
       ELSE \* showModelConsentModal(): the modal is appended, and the first
            \* #cancelModel / #acceptModel of the document get this call's closures
            /\ askBtnDisabled' = TRUE
            /\ qaCall' = [qaCall EXCEPT ![c] = [IdleCall EXCEPT !.pc = "consent",
                                                               !.consent = "pending"]]
            /\ modals' = Append(modals, c)
            /\ btnHandler' = [btnHandler EXCEPT ![Head(Append(modals, c))] = c]
            /\ out' = NoOutput
            /\ UNCHANGED <<status, qaPipeline, pipeline, transformersPromise>>
  /\ UNCHANGED <<initPc, state, rendered, taVars, genVars, callVars>>

\* askBtn "click" listener (a disabled button fires no click)
AskClick(c) ==
  /\ ~askBtnDisabled
  /\ answerQuestion(c)

\* qaInput "keypress" listener, key Enter
EnterKey(c) == answerQuestion(c)

\* initQAPipeline() after `await showModelConsentModal(...)` resolved
initQAPipeline(c, consent) ==
  IF ~consent
  THEN /\ qaCatch(c, "User declined model download")
       /\ UNCHANGED <<qaPipeline, pipeline, transformersPromise>>
  ELSE IF pipeline
  THEN \* loadTransformers() returns the loaded module; pipelineFn(...) is called
       /\ qaCall' = [qaCall EXCEPT ![c] = [@ EXCEPT !.pc = "loadModel", !.consent = "true"]]
       /\ status' = "Loading Q&A model... This may take a moment."
       /\ out' = NoOutput
       /\ UNCHANGED <<askBtnDisabled, qaPipeline, pipeline, transformersPromise>>
  ELSE \* loadTransformers() returns the pending import, starting it if there is none
       /\ qaCall' = [qaCall EXCEPT ![c] = [@ EXCEPT !.pc = "loadLib", !.consent = "true"]]
       /\ transformersPromise' = "pending"
       /\ out' = NoOutput
       /\ UNCHANGED <<status, askBtnDisabled, qaPipeline, pipeline>>

\* onclick of #acceptModel (consent = TRUE) or #cancelModel (FALSE) of modal m
ModalButton(m, consent) ==
  /\ m \in Range(modals)
  /\ btnHandler[m] # 0
  /\ LET c == btnHandler[m]
     IN IF c \notin Range(modals)
        THEN \* document.body.removeChild(modal) throws: the modal is gone
             /\ out' = [kind |-> "error", text |-> "NotFoundError"]
             /\ UNCHANGED <<status, qaVars>>
        ELSE /\ modals' = Remove(modals, c)
             /\ btnHandler' = [btnHandler EXCEPT ![c] = 0]
             /\ initQAPipeline(c, consent)
  /\ UNCHANGED <<initPc, state, rendered, taVars, genVars, callVars>>

AcceptClick(m) == ModalButton(m, TRUE)
CancelClick(m) == ModalButton(m, FALSE)

\* modal.onclick with the modal itself as target
BackdropClick(m) ==
  /\ m \in Range(modals)
  /\ modals' = Remove(modals, m)
  /\ btnHandler' = [btnHandler EXCEPT ![m] = 0]
  /\ initQAPipeline(m, FALSE)
  /\ UNCHANGED <<initPc, state, rendered, taVars, genVars, callVars>>

Waiting(pc) == {c \in Calls : qaCall[c].pc = pc}

\* the dynamic import of Transformers.js resolved
LibLoaded ==
  /\ transformersPromise = "pending"
  /\ transformersPromise' = "fulfilled"
  /\ pipeline' = TRUE
  /\ qaCall' = [c \in Calls |-> IF qaCall[c].pc = "loadLib"
                                THEN [qaCall[c] EXCEPT !.pc = "loadModel"]
                                ELSE qaCall[c]]
  /\ status' = "Loading Q&A model... This may take a moment."
  /\ out' = NoOutput
  /\ UNCHANGED <<askBtnDisabled, qaPipeline, modals, btnHandler>>
  /\ UNCHANGED <<initPc, state, rendered, taVars, genVars, callVars>>

\* the dynamic import failed
LibFailed ==
  /\ transformersPromise = "pending"
  /\ transformersPromise' = "null"
  /\ qaCall' = [c \in Calls |-> IF qaCall[c].pc = "loadLib" THEN IdleCall ELSE qaCall[c]]
  /\ out' = Alert("Error: Failed to fetch dynamically imported module")
  /\ status' = "Error processing question."
  /\ askBtnDisabled' = FALSE
  /\ UNCHANGED <<qaPipeline, pipeline, modals, btnHandler>>
  /\ UNCHANGED <<initPc, state, rendered, taVars, genVars, callVars>>

\* pipelineFn(task, name) resolved: the model is downloaded
ModelLoaded(c) ==
  /\ qaCall[c].pc = "loadModel"
  /\ qaPipeline' = TRUE
  /\ qaAsk(c, askBtnDisabled)
  /\ UNCHANGED <<pipeline, transformersPromise, modals, btnHandler>>
  /\ UNCHANGED <<initPc, state, rendered, taVars, genVars, callVars>>

ModelFailed(c) ==
  /\ qaCall[c].pc = "loadModel"
  /\ qaCatch(c, "Failed to load model")
  /\ UNCHANGED <<qaPipeline, pipeline, transformersPromise, modals, btnHandler>>
  /\ UNCHANGED <<initPc, state, rendered, taVars, genVars, callVars>>

\* pipeline(question, context) resolved: the answer is shown in qaModal
Answered(c) ==
  /\ qaCall[c].pc = "answering"
  /\ out' = [kind |-> "answer", context |-> qaCall[c].context,
             truncationWarning |-> qaCall[c].wasTruncated]
  /\ status' = "Question answered."
  /\ askBtnDisabled' = FALSE
  /\ qaCall' = [qaCall EXCEPT ![c] = IdleCall]
  /\ UNCHANGED <<qaPipeline, pipeline, transformersPromise, modals, btnHandler>>
  /\ UNCHANGED <<initPc, state, rendered, taVars, genVars, callVars>>

AnswerFailed(c) ==
  /\ qaCall[c].pc = "answering"
  /\ qaCatch(c, "inference failed")
  /\ UNCHANGED <<qaPipeline, pipeline, transformersPromise, modals, btnHandler>>
  /\ UNCHANGED <<initPc, state, rendered, taVars, genVars, callVars>>

(***************************************************************************)
(* text-analysis.js: values                                                *)
(***************************************************************************)
\* Scores are counted in units of 1/ScoreUnit; the model outputs below are
\* multiples of 2^5 units, so that the halvings (a + b) / 2 stay whole.
ScoreUnit == 2^10

\* score > CONFIDENCE_THRESHOLD, with CONFIDENCE_THRESHOLD = 0.1
AboveThreshold(score) == score * 10 > ScoreUnit

EXPORT_TEXT_PREVIEW_LENGTH == 100
EXPORT_METADATA_LENGTH == 200
ADDITIONAL_CLASS_LABELS == <<"Article", "Document", "Event", "Location", "Topic">>

\* String.prototype.indexOf(t, from): -1 when t does not occur from there on
IndexOf(s, t, from) ==
  With({i \in from..(Len(s) - Len(t)) : Substring(s, i, i + Len(t)) = t},
       LAMBDA hits : IF hits = {} THEN -1
                     ELSE CHOOSE i \in hits : \A j \in hits : i <= j)

\* String.prototype.replace(t, r) with a string pattern: the first occurrence
ReplaceFirst(s, t, r) ==
  With(IndexOf(s, t, 0),
       LAMBDA i : IF i = -1 THEN s
                  ELSE Substring(s, 0, i) \o r \o Substring(s, i + Len(t), Len(s)))

StartsWith(s, t) == Len(t) <= Len(s) /\ Substring(s, 0, Len(t)) = t

\* s.replace(/[^...]/g, r): every character outside `kept` becomes r
RECURSIVE ReplaceOutside(_, _, _)
ReplaceOutside(s, kept, r) ==
  IF Len(s) = 0 THEN ""
  ELSE (IF \E i \in 1..Len(kept) : CharAt(kept, i) = CharAt(s, 1)
        THEN CharAt(s, 1) ELSE r)
       \o ReplaceOutside(Substring(s, 1, Len(s)), kept, r)

Digits == "0123456789"

\* String(n) for n >= 0
RECURSIVE NumberToString(_)
NumberToString(n) ==
  IF n < 10 THEN CharAt(Digits, n + 1)
  ELSE NumberToString(n \div 10) \o CharAt(Digits, (n % 10) + 1)

\* An object whose values are lists, as the sequence of its entries in key
\* (insertion) order.
KeyAt(map, key) ==
  With({i \in 1..Len(map) : map[i].key = key},
       LAMBDA hits : IF hits = {} THEN 0 ELSE CHOOSE i \in hits : TRUE)

Keys(map) == [i \in 1..Len(map) |-> map[i].key]

\* map[key].push(...items), after `if (!map[key]) map[key] = []`
PushAll(map, key, items) ==
  With(KeyAt(map, key),
       LAMBDA i : IF i = 0 THEN Append(map, [key |-> key, items |-> items])
                  ELSE [map EXCEPT ![i].items = @ \o items])

\* a token of the NER model's output; start = end = 0 when the model gives
\* no positions
Token(entity, word, score, start, end) ==
  [entity |-> entity, word |-> word, score |-> score, start |-> start, end |-> end]

Entity(word, score, start, end) ==
  [word |-> word, score |-> score, start |-> start, end |-> end]

(***************************************************************************)
(* text-analysis.js: performNER() on the worker's result                   *)
(***************************************************************************)
\* text.indexOf(cleanWord, searchStart), then the case-insensitive search
FoundIndex(text, cleanWord, searchStart) ==
  With(IndexOf(text, cleanWord, searchStart),
       LAMBDA found : IF found # -1 THEN found
                      ELSE IndexOf(ToLower(text), ToLower(cleanWord), searchStart))

\* one item of "Calculate start/end positions if not provided by the model":
\* the item and the next currentPosition
LocateItem(item, text, currentPosition) ==
  IF item.start # 0 /\ item.end # 0
  THEN [item |-> item, position |-> currentPosition]
  ELSE With(ReplaceFirst(item.word, "##", ""),
            LAMBDA cleanWord :
              With(FoundIndex(text, cleanWord, currentPosition),
                   LAMBDA foundIndex :
                     IF foundIndex # -1
                     THEN [item |-> [item EXCEPT !.start = foundIndex,
                                                 !.end = foundIndex + Len(cleanWord)],
                           position |-> foundIndex + Len(cleanWord)]
                     ELSE [item |-> [item EXCEPT !.start = currentPosition,
                                                 !.end = currentPosition + Len(cleanWord)],
                           position |-> currentPosition + Len(cleanWord) + 1]))

RECURSIVE LocateItems(_, _, _)
LocateItems(result, text, currentPosition) ==
  IF result = <<>> THEN <<>>
  ELSE With(LocateItem(Head(result), text, currentPosition),
            LAMBDA located :
              <<located.item>> \o LocateItems(Tail(result), text, located.position))

\* item.entity.replace('B-', '').replace('I-', '')
EntityType(item) == ReplaceFirst(ReplaceFirst(item.entity, "B-", ""), "I-", "")

NewEntity(item) ==
  Entity(ReplaceFirst(item.word, "##", ""), item.score, item.start, item.end)

\* consolidateEntityToken() on the list entities[entityType]
consolidateEntityToken(item, list) ==
  IF Len(list) = 0 THEN <<NewEntity(item)>>
  ELSE IF StartsWith(item.entity, "I-") /\ item.start = list[Len(list)].end
  THEN [list EXCEPT ![Len(list)] =
          [word |-> @.word \o (IF StartsWith(item.word, "##") THEN "" ELSE " ")
                           \o ReplaceFirst(item.word, "##", ""),
           score |-> (@.score + item.score) \div 2,
           start |-> @.start,
           end |-> item.end]]
  ELSE Append(list, NewEntity(item))

\* "Group entities by type"
RECURSIVE GroupItems(_, _)
GroupItems(entities, result) ==
  IF result = <<>> THEN entities
  ELSE With(KeyAt(entities, EntityType(Head(result))),
            LAMBDA i :
              GroupItems(
                IF i = 0
                THEN Append(entities, [key |-> EntityType(Head(result)),
                                       items |-> consolidateEntityToken(Head(result), <<>>)])
                ELSE [entities EXCEPT ![i].items = consolidateEntityToken(Head(result), @)],
                Tail(result)))

isNameLikeType(entityType) ==
  entityType # "" /\ ToLower(entityType) \in {"per", "person", "org", "organisation",
                                              "organization"}

startsWithCapital(word) == Len(word) > 0 /\ CharAt(word, 1) \in DOMAIN LowerOf

\* shouldMerge without isNameLikeType
shouldMergeAnyType(current, next, entityType) ==
  /\ next.start - current.end <= 2
  /\ \/ Len(current.word) <= 2
     \/ Len(next.word) <= 2
     \/ (Len(current.word) <= 4 /\ Len(next.word) <= 4)
     \/ /\ next.start - current.end = 1
        /\ Len(current.word) <= 20 /\ Len(next.word) <= 20
        /\ startsWithCapital(current.word) /\ startsWithCapital(next.word)

shouldMerge(current, next, entityType) ==
  /\ next.start - current.end <= 2
  /\ \/ Len(current.word) <= 2
     \/ Len(next.word) <= 2
     \/ (Len(current.word) <= 4 /\ Len(next.word) <= 4)
     \/ /\ isNameLikeType(entityType)
        /\ next.start - current.end = 1
        /\ Len(current.word) <= 20 /\ Len(next.word) <= 20
        /\ startsWithCapital(current.word) /\ startsWithCapital(next.word)

\* the for loop of mergeAdjacentFragments() from entities[i] on
RECURSIVE mergeLoop(_, _, _, _, _)
mergeLoop(merged, current, rest, originalText, entityType) ==
  IF rest = <<>> THEN Append(merged, current)
  ELSE IF shouldMerge(current, Head(rest), entityType)
  THEN mergeLoop(merged,
                 Entity(Substring(originalText, Min(current.start, Head(rest).end),
                                  Max(current.start, Head(rest).end)),
                        (current.score + Head(rest).score) \div 2,
                        current.start, Head(rest).end),
                 Tail(rest), originalText, entityType)
  ELSE mergeLoop(Append(merged, current), Head(rest), Tail(rest), originalText, entityType)

mergeAdjacentFragments(entities, originalText, entityType) ==
  IF Len(entities) <= 1 THEN entities
  ELSE mergeLoop(<<>>, Head(entities), Tail(entities), originalText, entityType)

\* what performNER(text) resolves with when the worker answers `result`
NerEntities(result, text) ==
  With(GroupItems(<<>>, LocateItems(result, text, 0)),
       LAMBDA entities :
         [i \in 1..Len(entities) |->
            [key |-> entities[i].key,
             items |-> mergeAdjacentFragments(entities[i].items, text, entities[i].key)]])

(***************************************************************************)
(* text-analysis.js: classification, mapping, export                       *)
(***************************************************************************)
\* state.ontology.classes.map(c => c.label || c.name)
ClassLabels(ontology) ==
  [i \in 1..Len(ontology.classes) |->
     OrElse(ontology.classes[i].label, ontology.classes[i].name)]

\* labels that do not depend on the mode
classLabelsAnyMode(ontology, useExistingClassesOnly) ==
  ClassLabels(ontology) \o ADDITIONAL_CLASS_LABELS

\* the labels performClassification() sends to the worker
classLabels(ontology, useExistingClassesOnly) ==
  IF useExistingClassesOnly THEN ClassLabels(ontology)
  ELSE ClassLabels(ontology) \o ADDITIONAL_CLASS_LABELS

\* the labels extractRelationships() sends to the worker
relationshipTypes(ontology) ==
  With(SelectSeq(ontology.properties, LAMBDA p : p.kind = "object"),
       LAMBDA props : [i \in 1..Len(props) |-> props[i].name])

LowerLetters(s) == ReplaceOutside(ToLower(s), LowerChars, "")

\* the predicate of relevantClasses.find(...)
classMatches(label, entityTypeNormalized) ==
  \A classNameNormalized \in {LowerLetters(label)} :
    \/ Includes(classNameNormalized, entityTypeNormalized)
    \/ Includes(entityTypeNormalized, classNameNormalized)
    \/ /\ Len(entityTypeNormalized) > 3
       /\ StartsWith(classNameNormalized, Substring(entityTypeNormalized, 0, 3))

\* the first ten of classification.labels, filtered by score
relevantClassesOfFirstTen(classification) ==
  With([i \in 1..Min(10, Len(classification.labels)) |->
          [label |-> classification.labels[i], score |-> classification.scores[i]]],
       LAMBDA firstTen : SelectSeq(firstTen, LAMBDA c : AboveThreshold(c.score)))

\* classification.labels filtered by score, first ten
relevantClasses(classification) ==
  With(SelectSeq([i \in 1..Len(classification.labels) |->
                    [label |-> classification.labels[i],
                     score |-> classification.scores[i]]],
                 LAMBDA c : AboveThreshold(c.score)),
       LAMBDA relevant : SubSeq(relevant, 1, Min(10, Len(relevant))))

\* Array.prototype.find on the labels: the first match, "" when there is none
matchedClass(relevant, entityType) ==
  With(LowerLetters(entityType),
       LAMBDA normalized :
         With({i \in 1..Len(relevant) : classMatches(relevant[i].label, normalized)},
              LAMBDA hits : IF hits = {} THEN ""
                            ELSE relevant[CHOOSE i \in hits : \A j \in hits : i <= j].label))

\* Object.keys(entities).forEach(...) of mapEntitiesToOntology()
RECURSIVE mapLoop(_, _, _)
mapLoop(ontologyEntities, entities, relevant) ==
  IF entities = <<>> THEN ontologyEntities
  ELSE With(IF Len(Head(entities).items) = 0 THEN ""
            ELSE matchedClass(relevant, Head(entities).key),
            LAMBDA label :
              mapLoop(IF label = "" THEN ontologyEntities
                      ELSE PushAll(ontologyEntities, label, Head(entities).items),
                      Tail(entities), relevant))

mapEntitiesToOntology(ontology, entities, classification) ==
  IF classification = Null \/ ontology = Null THEN <<>>
  ELSE mapLoop(<<>>, entities, relevantClasses(classification))

Timestamp == "2024-01-01T00:00:00.000Z"

\* ontologyClass.toLowerCase().replace(/[^a-z0-9]/g, '-')
sanitizedClass(ontologyClass) ==
  ReplaceOutside(ToLower(ontologyClass), LowerChars \o Digits, "-")

exportNode(results, ontologyClass, entity, nodeIdCounter) ==
  [id |-> "extracted-" \o sanitizedClass(ontologyClass) \o "-"
          \o NumberToString(nodeIdCounter),
   class |-> ontologyClass,
   properties |-> << <<"name", entity.word>>,
                     <<"extractedFrom",
                       Substring(results.text, 0, EXPORT_TEXT_PREVIEW_LENGTH) \o "...">>,
                     <<"confidence", entity.score>>,
                     <<"extractedAt", results.timestamp>> >>]

\* the nodes exportResults() builds from results.ontologyEntities[from..]
RECURSIVE exportNodes(_, _, _)
exportNodes(results, from, nodeIdCounter) ==
  IF from > Len(results.ontologyEntities) THEN <<>>
  ELSE With(results.ontologyEntities[from],
            LAMBDA entry :
              [i \in 1..Len(entry.items) |->
                 exportNode(results, entry.key, entry.items[i], nodeIdCounter + i - 1)]
              \o exportNodes(results, from + 1, nodeIdCounter + Len(entry.items)))

\* the object exportResults() downloads
exportData(results) ==
  [metadata |-> [source |-> "SintOlogy Text Analysis",
                 textAnalyzed |->
                   Substring(results.text, 0, EXPORT_METADATA_LENGTH)
                   \o (IF Len(results.text) > EXPORT_METADATA_LENGTH THEN "..." ELSE "")],
   nodes |-> exportNodes(results, 1, 0),
   edges |-> <<>>,
   rawAnalysis |-> [entities |-> results.entities,
                    classifications |-> results.classification,
                    relationships |-> results.relationships]]

(***************************************************************************)
(* text-analysis.js and text-analysis-worker.js: the page                  *)
(***************************************************************************)
\* analyzeText() runs that can be outstanding at once
MaxRuns == 2
Runs == 1..MaxRuns

\* what the user can have typed into inputText
TextInputs == {" ", "Alex Parker joined Org One "}

\* what the NER model can answer: tokens with positions, sub-word tokens
\* without positions, nothing
NerOutputs ==
  { << Token("B-PER", "Alex", 30 * 2^5, 0, 4), Token("I-PER", "Parker", 28 * 2^5, 5, 11),
       Token("B-ORG", "Org", 24 * 2^5, 19, 22), Token("I-ORG", "One", 20 * 2^5, 23, 26) >>,
    << Token("B-PER", "Al", 30 * 2^5, 0, 0), Token("I-PER", "##ex", 26 * 2^5, 0, 0),
       Token("B-LOC", "org", 16 * 2^5, 0, 0) >>,
    << >> }

\* the scores of an answer in which the first `high` labels pass the threshold
Scores(n, high) == [i \in 1..n |-> IF i <= high THEN (31 - i) * 2^5 ELSE 3 * 2^5]

\* what the zero-shot classifier can answer for a list of labels: the labels
\* with their scores, all of them above the threshold or none
ClassifierOutputs(labels) ==
  {[labels |-> labels, scores |-> Scores(Len(labels), high)] : high \in {0, Len(labels)}}

\* a schema without object properties, with a class that has no label
SchemaB ==
  [classes |-> << Class("Role", ""), Class("Person", "Person") >>,
   properties |-> << Prop("id", "datatype", <<UniversalDomain>>),
                     Prop("name", "datatype", <<"Role">>) >>]
TASchemas == {SchemaA, SchemaB}

IdleRun == [pc |-> "idle", consent |-> "none", text |-> "", entities |-> <<>>,
            classification |-> Null]

Message(type, payload) == [type |-> type, payload |-> payload]

Placeholders == [entities |-> FALSE, classification |-> FALSE, mapping |-> FALSE]

TAInit ==
  ta = [init |-> "fetching",
        ontology |-> Null, isLoading |-> FALSE, useExistingClassesOnly |-> TRUE,
        lastAnalysisResults |-> Null,
        status |-> "", analyzeBtnDisabled |-> FALSE, panels |-> Placeholders,
        textAnalysisWorker |-> FALSE, workerReady |-> FALSE,
        run |-> [c \in Runs |-> IdleRun],
        listeners |-> <<>>,
        modals |-> <<>>, btnHandler |-> [c \in Runs |-> 0],
        toWorker |-> <<>>, toMain |-> <<>>,
        nerPipeline |-> FALSE, classifierPipeline |-> FALSE, jobs |-> <<>>,
        out |-> NoOutput, console |-> <<>>]

\* the page when a handler starts: nothing handed out or logged yet
Fresh(p) == [p EXCEPT !.out = NoOutput, !.console = <<>>]

\* analyzeText(): catch
taCatch(p, c, message) ==
  [p EXCEPT !.status = "Error: " \o message,
            !.analyzeBtnDisabled = FALSE,
            !.console = Append(@, "Error analyzing text: " \o message),
            !.run[c] = IdleRun]

\* analyzeText() from the return of initializeModels() to the await in performNER()
afterInitializeModels(p, c) ==
  IF ~p.workerReady
  THEN taCatch([p EXCEPT !.status = "Extracting named entities...",
                         !.analyzeBtnDisabled = TRUE],
               c, "Worker not ready")
  ELSE [p EXCEPT !.status = "Extracting named entities...",
                 !.analyzeBtnDisabled = TRUE,
                 !.listeners = Append(@, c),
                 !.toWorker = Append(@, Message("ner", p.run[c].text)),
                 !.run[c].pc = "ner"]

\* initializeModels() after initWorker() resolved
initializeModelsDone(p, c) ==
  afterInitializeModels([p EXCEPT !.isLoading = FALSE, !.analyzeBtnDisabled = FALSE], c)

\* initializeModels(): catch
initializeModelsCaught(p, c, message) ==
  afterInitializeModels(
    [p EXCEPT !.status = "Error loading models: " \o message,
              !.console = Append(@, "Error loading models: " \o message),
              !.isLoading = FALSE,
              !.analyzeBtnDisabled = FALSE],
    c)

\* initWorker() up to its first await (workerReady is false)
initWorker(p, c) ==
  IF p.textAnalysisWorker
  THEN [p EXCEPT !.run[c].pc = "poll"]
  ELSE \* showModelConsentModal(): the modal is appended, and the first
       \* #cancelModel / #acceptModel of the document get this run's closures
       [p EXCEPT !.modals = Append(@, c),
                 !.btnHandler[Head(Append(p.modals, c))] = c,
                 !.run[c].pc = "consent",
                 !.run[c].consent = "pending"]

\* analyzeText() up to its first await that waits for an event
analyzeText(p, c, input) ==
  IF Trim(input) = ""
  THEN [p EXCEPT !.status = "Please enter some text to analyze."]
  ELSE IF p.workerReady
  THEN afterInitializeModels([p EXCEPT !.status = "Initializing AI models...",
                                       !.run[c].text = Trim(input)], c)
  ELSE initWorker([p EXCEPT !.status = "Initializing AI models...",
                            !.run[c].text = Trim(input),
                            !.isLoading = TRUE,
                            !.analyzeBtnDisabled = TRUE], c)

\* initWorker() without the `if (!consent) throw`: the worker is made whatever
\* the answer was
initWorkerUnasked(p, c, consent) ==
  [p EXCEPT !.status = "Initializing Web Worker...",
            !.textAnalysisWorker = TRUE,
            !.toWorker = Append(@, Message("init", "")),
            !.run[c].pc = "poll",
            !.run[c].consent = IF consent THEN "true" ELSE "false"]

\* initWorker() after `await showModelConsentModal(...)` resolved
initWorkerConsent(p, c, consent) ==
  IF ~consent
  THEN initializeModelsCaught([p EXCEPT !.run[c].consent = "false"], c,
                              "User declined model download")
  ELSE \* new Worker(...), its 'message' listener, postMessage({type: 'init'})
       [p EXCEPT !.status = "Initializing Web Worker...",
                 !.textAnalysisWorker = TRUE,
                 !.toWorker = Append(@, Message("init", "")),
                 !.run[c].pc = "poll",
                 !.run[c].consent = "true"]

\* removeModal(), then resolve(consent): the promise of run c settles once
consentResolved(p, c, consent) ==
  IF p.run[c].pc # "consent" THEN p
  ELSE initWorkerConsent([p EXCEPT !.modals = Remove(@, c), !.btnHandler[c] = 0],
                         c, consent)

\* the 'message' listener initWorker() registered on the worker
workerListener(p, msg) ==
  IF msg.type = "status" THEN [p EXCEPT !.status = msg.payload]
  ELSE IF msg.type = "ready"
  THEN [p EXCEPT !.workerReady = TRUE,
                 !.status = "Models loaded. Ready to analyze text.",
                 !.analyzeBtnDisabled = FALSE]
  ELSE IF msg.type = "error"
  THEN [p EXCEPT !.status = "Error: " \o msg.payload,
                 !.console = Append(@, "Worker error: " \o msg.payload),
                 !.analyzeBtnDisabled = FALSE]
  ELSE p

\* analyzeText() from the storing of the results to its end
analysisDone(p, c, relationships) ==
  [p EXCEPT !.panels = [entities |-> TRUE, classification |-> TRUE, mapping |-> TRUE],
            !.lastAnalysisResults =
               [text |-> p.run[c].text,
                entities |-> p.run[c].entities,
                classification |-> p.run[c].classification,
                relationships |-> relationships,
                ontologyEntities |->
                  mapEntitiesToOntology(p.ontology, p.run[c].entities,
                                        p.run[c].classification),
                timestamp |-> Timestamp],
            !.status = "Analysis complete.",
            !.analyzeBtnDisabled = FALSE,
            !.run[c] = IdleRun]

\* analyzeText() from the result of performClassification() to the await in
\* extractRelationships(), or to its end when that returns null
afterClassification(p, c, result) ==
  IF ~p.workerReady
  THEN taCatch([p EXCEPT !.status = "Extracting relationships..."], c, "Worker not ready")
  ELSE IF p.ontology = Null
  THEN taCatch([p EXCEPT !.status = "Extracting relationships..."], c, "TypeError")
  ELSE IF relationshipTypes(p.ontology) = <<>>
  THEN analysisDone([p EXCEPT !.status = "Extracting relationships...",
                              !.run[c].classification = result], c, Null)
  ELSE [p EXCEPT !.status = "Extracting relationships...",
                 !.run[c].classification = result,
                 !.listeners = Append(@, c),
                 !.toWorker = Append(@, Message("classify", relationshipTypes(p.ontology))),
                 !.run[c].pc = "relations"]

\* analyzeText() from the result of performNER() to the await in
\* performClassification()
afterNER(p, c, entities) ==
  IF ~p.workerReady
  THEN taCatch([p EXCEPT !.panels.entities = TRUE,
                         !.status = "Classifying text against ontology..."],
               c, "Worker not ready")
  ELSE IF p.ontology = Null
  THEN taCatch([p EXCEPT !.panels.entities = TRUE,
                         !.status = "Classifying text against ontology..."],
               c, "TypeError")
  ELSE [p EXCEPT !.panels.entities = TRUE,
                 !.status = "Classifying text against ontology...",
                 !.run[c].entities = entities,
                 !.listeners = Append(@, c),
                 !.toWorker = Append(@, Message("classify",
                                                classLabels(p.ontology,
                                                            p.useExistingClassesOnly))),
                 !.run[c].pc = "classify"]

\* handleResult of run c (performNER, performClassification or
\* extractRelationships, by the position of the run) and what the run does
\* when its promise settles
handleResult(p, c, msg) ==
  IF msg.type = "error"
  THEN taCatch([p EXCEPT !.listeners = Remove(@, c)], c, msg.payload)
  ELSE IF msg.type = "ner-result" /\ p.run[c].pc = "ner"
  THEN afterNER([p EXCEPT !.listeners = Remove(@, c)], c,
                NerEntities(msg.payload, p.run[c].text))
  ELSE IF msg.type = "classify-result" /\ p.run[c].pc = "classify"
  THEN afterClassification([p EXCEPT !.listeners = Remove(@, c)], c, msg.payload)
  ELSE IF msg.type = "classify-result" /\ p.run[c].pc = "relations"
  THEN analysisDone([p EXCEPT !.listeners = Remove(@, c)], c, msg.payload)
  ELSE p

\* the listeners that were registered when the event was dispatched, in
\* registration order; one that was removed meanwhile is skipped
RECURSIVE dispatch(_, _, _)
dispatch(p, registered, msg) ==
  IF registered = <<>> THEN p
  ELSE dispatch(IF Head(registered) \in Range(p.listeners)
                THEN handleResult(p, Head(registered), msg)
                ELSE p,
                Tail(registered), msg)

\* text-analysis-worker.js: the 'message' listener up to its first await
workerOnMessage(p, msg) ==
  IF msg.type = "init"
  THEN [p EXCEPT !.toMain = Append(@, Message("status",
                                              "Loading Named Entity Recognition model...")),
                 !.jobs = Append(@, Message("load-ner", ""))]
  ELSE IF msg.type = "ner"
  THEN IF ~p.nerPipeline
       THEN [p EXCEPT !.toMain = Append(@, Message("error", "NER model not initialized"))]
       ELSE [p EXCEPT !.jobs = Append(@, msg)]
  ELSE IF msg.type = "classify"
  THEN IF ~p.classifierPipeline
       THEN [p EXCEPT !.toMain = Append(@, Message("error",
                                                   "Classifier model not initialized"))]
       ELSE [p EXCEPT !.jobs = Append(@, msg)]
  ELSE [p EXCEPT !.toMain = Append(@, Message("error", "Unknown message type"))]

\* the sequence without its j-th element
Without(seq, j) == SubSeq(seq, 1, j - 1) \o SubSeq(seq, j + 1, Len(seq))

exportResults(p) ==
  IF p.lastAnalysisResults = Null
  THEN [p EXCEPT !.out = Alert("No analysis results to export. Please analyze some text first.")]
  ELSE [p EXCEPT !.out = Download("sintology-text-analysis.json",
                                  exportData(p.lastAnalysisResults)),
                 !.status = "Results exported successfully."]

toggleClassMode(p) ==
  [p EXCEPT !.useExistingClassesOnly = ~p.useExistingClassesOnly,
            !.status = IF ~p.useExistingClassesOnly
                       THEN "Mode: Existing ontology classes only"
                       ELSE "Mode: Will suggest new classes if relevant"]

clearAll(p) ==
  [p EXCEPT !.panels = Placeholders,
            !.status = "Ready. Paste text below to analyze."]

(***************************************************************************)
(* text-analysis.js and text-analysis-worker.js: the steps                 *)
(***************************************************************************)
\* a step of the text-analysis page or its worker to the page `next`
TAStep(next) ==
  /\ ta' = next
  /\ UNCHANGED <<explorerVars, qaVars, page, genVars, callVars>>

\* init() after fetchJson(ONTOLOGY_URL) resolved
TAInitLoaded(schemas) ==
  /\ ta.init = "fetching"
  /\ \E ontology \in schemas :
       TAStep([Fresh(ta) EXCEPT !.init = "loaded",
                                !.ontology = ontology,
                                !.status = "Ready. Paste text below to analyze."])

\* init(): catch
TAInitFailed ==
  /\ ta.init = "fetching"
  /\ TAStep([Fresh(ta) EXCEPT !.init = "failed",
                              !.status = "Failed to load ontology.",
                              !.console = <<"Failed to load /ontology/ontology.json">>])

\* analyzeBtn "click" listener (a disabled button fires no click)
AnalyzeClick(c) ==
  /\ ~ta.analyzeBtnDisabled
  /\ ta.run[c].pc = "idle"
  /\ \E input \in TextInputs : TAStep(analyzeText(Fresh(ta), c, input))

\* a button of the consent modal m: the closures of the run that last took
\* the document's first #cancelModel / #acceptModel
TAModalButton(m, consent) ==
  /\ m \in Range(ta.modals)
  /\ ta.btnHandler[m] # 0
  /\ TAStep(consentResolved(Fresh(ta), ta.btnHandler[m], consent))

TAAcceptClick(m) == TAModalButton(m, TRUE)
TACancelClick(m) == TAModalButton(m, FALSE)

\* modal.onclick with e.target === modal
TABackdropClick(m) ==
  /\ m \in Range(ta.modals)
  /\ TAStep(consentResolved(Fresh(ta), m, FALSE))

\* the setInterval callback of initWorker() finds workerReady
PollTick(c) ==
  /\ ta.run[c].pc = "poll"
  /\ ta.workerReady
  /\ TAStep(initializeModelsDone(Fresh(ta), c))

\* the setTimeout callback of initWorker(): five minutes passed; the poll
\* (every 100 ms) would have seen workerReady long before
PollTimeout(c) ==
  /\ ta.run[c].pc = "poll"
  /\ ~ta.workerReady
  /\ TAStep(initializeModelsCaught(Fresh(ta), c, "Worker initialization timeout"))

ExportClick == TAStep(exportResults(Fresh(ta)))
ToggleClick == TAStep(toggleClassMode(Fresh(ta)))
ClearClick == TAStep(clearAll(Fresh(ta)))

\* the worker takes the next message of the page
WorkerReceive ==
  /\ ta.toWorker # <<>>
  /\ TAStep(workerOnMessage(Fresh([ta EXCEPT !.toWorker = Tail(@)]), Head(ta.toWorker)))

\* the worker after `await pipeline('token-classification', nerModel)`
NerLoaded ==
  \E j \in DOMAIN ta.jobs :
    /\ ta.jobs[j].type = "load-ner"
    /\ TAStep([Fresh(ta) EXCEPT
                 !.nerPipeline = TRUE,
                 !.toMain = Append(@, Message("status",
                                              "Loading Zero-Shot Classification model...")),
                 !.jobs[j] = Message("load-classifier", "")])

\* the worker after `await pipeline('zero-shot-classification', classifierModel)`
ClassifierLoaded ==
  \E j \in DOMAIN ta.jobs :
    /\ ta.jobs[j].type = "load-classifier"
    /\ TAStep([Fresh(ta) EXCEPT
                 !.classifierPipeline = TRUE,
                 !.toMain = Append(@, Message("ready", "Models loaded and ready")),
                 !.jobs = Without(@, j)])

\* the worker's catch: an awaited promise of invocation j rejected
WorkerFailed(j, error) ==
  TAStep([Fresh(ta) EXCEPT !.toMain = Append(@, Message("error", error)),
                           !.jobs = Without(@, j)])

LoadFailed ==
  \E j \in DOMAIN ta.jobs :
    /\ ta.jobs[j].type \in {"load-ner", "load-classifier"}
    /\ WorkerFailed(j, "Failed to fetch model")

InferenceFailed ==
  \E j \in DOMAIN ta.jobs :
    /\ ta.jobs[j].type \in {"ner", "classify"}
    /\ WorkerFailed(j, "Inference failed")

\* the worker after `await nerPipeline(text)`
NerDone ==
  \E j \in DOMAIN ta.jobs :
    /\ ta.jobs[j].type = "ner"
    /\ \E result \in NerOutputs :
         TAStep([Fresh(ta) EXCEPT !.toMain = Append(@, Message("ner-result", result)),
                                  !.jobs = Without(@, j)])

\* the worker after `await classifierPipeline(text, labels, options)`
ClassifyDone ==
  \E j \in DOMAIN ta.jobs :
    /\ ta.jobs[j].type = "classify"
    /\ \E result \in ClassifierOutputs(ta.jobs[j].payload) :
         TAStep([Fresh(ta) EXCEPT !.toMain = Append(@, Message("classify-result", result)),
                                  !.jobs = Without(@, j)])

\* the page takes the next message of the worker: the listener of
\* initWorker() first, then the handleResult listeners
Deliver ==
  /\ ta.toMain # <<>>
  /\ TAStep(dispatch(workerListener(Fresh([ta EXCEPT !.toMain = Tail(@)]), Head(ta.toMain)),
                     ta.listeners, Head(ta.toMain)))


(***************************************************************************)
(* scripts/generate_ontology.py: the ERD source (erd/erd.md)               *)
(***************************************************************************)
\* The source is the sequence of its lines.
ScalarTypes == {"string", "date", "datetime"}

\* c is one of the characters of alphabet
OneOf(alphabet, c) == \E i \in 1..Len(alphabet) : CharAt(alphabet, i) = c

\* [A-Z][A-Z0-9_]*
isEntityName(token) ==
  /\ Len(token) > 0
  /\ OneOf(UpperChars, CharAt(token, 1))
  /\ \A i \in 2..Len(token) : OneOf(UpperChars \o Digits \o "_", CharAt(token, i))

\* exactly-one, zero-or-one, one-or-more, zero-or-more on either side of the edge
CardinalityTokens ==
  {left \o line \o right : left \in {"||", "|o", "}|", "}o"},
                           line \in {"--", ".."},
                           right \in {"||", "o|", "|{", "o{"}}

\* the blank-separated tokens of a line
RECURSIVE Tokens(_)
Tokens(line) ==
  With(TrimStart(line),
       LAMBDA s :
         IF s = "" THEN <<>>
         ELSE With(IndexOf(s, " ", 0),
                   LAMBDA i : IF i = -1 THEN <<s>>
                              ELSE <<Substring(s, 0, i)>> \o Tokens(Substring(s, i, Len(s)))))

FieldDeclaration(type, name) == [type |-> type, name |-> name]
EntityDeclaration(name, fields) == [name |-> name, fields |-> fields]
RelationshipDeclaration(left, cardinality, right, verbPhrase) ==
  [left |-> left, cardinality |-> cardinality, right |-> right, verbPhrase |-> verbPhrase]

\* a fatal error of the run: its kind, the line it was found on (0: none) and
\* the type, entity or name it cites
FatalError(kind, line, cites) == [kind |-> kind, line |-> line, cites |-> cites]

\* the parser before the first line
ParserStart == [entities |-> <<>>, relationships |-> <<>>, block |-> Null, error |-> Null]

\* one line inside an entity block
parseFieldLine(acc, k, tokens) ==
  IF tokens = <<>> THEN acc
  ELSE IF tokens = <<"}">>
  THEN [acc EXCEPT !.entities = Append(@, acc.block), !.block = Null]
  ELSE IF Len(tokens) # 2
  THEN [acc EXCEPT !.error = FatalError("SyntaxError", k, tokens[1])]
  ELSE IF tokens[1] \notin ScalarTypes
  THEN [acc EXCEPT !.error = FatalError("SyntaxError", k, tokens[1])]
  ELSE [acc EXCEPT !.block.fields = Append(@, FieldDeclaration(tokens[1], tokens[2]))]

\* one line outside the entity blocks
parseTopLine(acc, k, tokens) ==
  IF Len(tokens) = 2 /\ tokens[2] = "{" /\ isEntityName(tokens[1])
  THEN [acc EXCEPT !.block = EntityDeclaration(tokens[1], <<>>)]
  ELSE IF Len(tokens) = 5 /\ tokens[4] = ":"
  THEN IF isEntityName(tokens[1]) /\ tokens[2] \in CardinalityTokens
          /\ isEntityName(tokens[3])
       THEN [acc EXCEPT !.relationships =
                          Append(@, RelationshipDeclaration(tokens[1], tokens[2],
                                                            tokens[3], tokens[5]))]
       ELSE [acc EXCEPT !.error = FatalError("SyntaxError", k, tokens[2])]
  ELSE acc

\* one line of the source
parseLine(acc, k, line) ==
  IF acc.error # Null THEN acc
  ELSE With(Tokens(line),
            LAMBDA tokens : IF acc.block # Null
                            THEN parseFieldLine(acc, k, tokens)
                            ELSE parseTopLine(acc, k, tokens))

\* the single pass over lines first..last, in order
RECURSIVE parseLines(_, _, _, _)
parseLines(lines, first, last, acc) ==
  IF first > last THEN acc
  ELSE IF first = last THEN parseLine(acc, first, lines[first])
  ELSE With(parseLines(lines, first, (first + last) \div 2, acc),
            LAMBDA half : parseLines(lines, (first + last) \div 2 + 1, last, half))

\* the end of the source: a block that is still open is not terminated
parseEnd(lines, acc) ==
  IF acc.error = Null /\ acc.block # Null
  THEN [acc EXCEPT !.error = FatalError("SyntaxError", Len(lines), acc.block.name)]
  ELSE acc

\* Grammar Parser: the declarations in source order, or a SyntaxError
parse(lines) == parseEnd(lines, parseLines(lines, 1, Len(lines), ParserStart))

(***************************************************************************)
(* scripts/generate_ontology.py: naming transforms and the model builder   *)
(***************************************************************************)
UpperOf ==
  [c \in {CharAt(LowerChars, i) : i \in 1..Len(LowerChars)} |->
     CharAt(UpperChars, IndexIn(LowerChars, c))]

\* the segments of a name between underscores (empty segments dropped)
RECURSIVE Segments(_)
Segments(name) ==
  With(IndexOf(name, "_", 0),
       LAMBDA i : IF name = "" THEN <<>>
                  ELSE IF i = -1 THEN <<name>>
                  ELSE IF i = 0 THEN Segments(Substring(name, 1, Len(name)))
                  ELSE <<Substring(name, 0, i)>> \o Segments(Substring(name, i + 1, Len(name))))

\* a segment with its first letter in upper case
Capitalized(segment) ==
  With(CharAt(segment, 1),
       LAMBDA c : (IF c \in DOMAIN UpperOf THEN UpperOf[c] ELSE c)
                  \o Substring(segment, 1, Len(segment)))

RECURSIVE JoinWith(_, _)
JoinWith(words, sep) ==
  IF words = <<>> THEN ""
  ELSE IF Len(words) = 1 THEN words[1]
  ELSE words[1] \o sep \o JoinWith(Tail(words), sep)

\* SOCIAL_MEDIA_PROFILE -> SocialMediaProfile
PascalCase(name) ==
  With(Segments(name),
       LAMBDA segments :
         JoinWith([i \in 1..Len(segments) |-> Capitalized(ToLower(segments[i]))], ""))

\* SOCIAL_MEDIA_PROFILE -> Social Media Profile
ClassLabel(name) ==
  With(Segments(name),
       LAMBDA segments :
         JoinWith([i \in 1..Len(segments) |-> Capitalized(ToLower(segments[i]))], " "))

\* date_of_birth -> dateOfBirth
camelCase(name) ==
  With(Segments(name),
       LAMBDA segments :
         JoinWith([i \in 1..Len(segments) |->
                     IF i = 1 THEN segments[i] ELSE Capitalized(segments[i])], ""))

\* a foreign-key marker: the field name ends in _id
\* a marker test that looks at the last two characters only
isForeignKeySuffix(fieldName) ==
  Len(fieldName) >= 2 /\ Substring(fieldName, Len(fieldName) - 2, Len(fieldName)) = "id"

isForeignKey(fieldName) ==
  Len(fieldName) >= 3 /\ Substring(fieldName, Len(fieldName) - 3, Len(fieldName)) = "_id"

OntologyClass(name, label, entity) == [name |-> name, label |-> label, entity |-> entity]
\* `declared`: the source field name (datatype) or verb phrase (object);
\* `cardinality`: the raw token of an object property, "" otherwise
OntologyProperty(name, kind, domain, range, declared, cardinality) ==
  [name |-> name, kind |-> kind, domain |-> domain, range |-> range,
   declared |-> declared, cardinality |-> cardinality]

\* the builder before the first declaration
BuilderStart == [classes |-> <<>>, properties |-> <<>>, error |-> Null]

\* step 1 for one entity: its class, or a collision with an earlier class
addClass(built, entityName, name) ==
  IF \E c \in Range(built.classes) : c.name = name
  THEN [built EXCEPT !.error = FatalError("SemanticError", 0, entityName)]
  ELSE [built EXCEPT !.classes = Append(@, OntologyClass(name, ClassLabel(entityName),
                                                        entityName))]

\* step 1: one class per entity declaration, in declaration order
RECURSIVE buildClasses(_, _, _)
buildClasses(built, entities, k) ==
  IF built.error # Null \/ k > Len(entities) THEN built
  ELSE With(addClass(built, entities[k].name, PascalCase(entities[k].name)),
            LAMBDA next : buildClasses(next, entities, k + 1))

\* the position of the first property that satisfies Same, 0 when there is none
FirstWhere(properties, Same(_)) ==
  With({i \in 1..Len(properties) : Same(properties[i])},
       LAMBDA hits : IF hits = {} THEN 0 ELSE CHOOSE i \in hits : \A j \in hits : i <= j)

\* the property list with class name added to the domain of entry i
Accumulate(properties, i, className) ==
  IF className \in Range(properties[i].domain) THEN properties
  ELSE [properties EXCEPT ![i].domain = Append(@, className)]

\* step 2 for one field, merging on the transformed name alone
addFieldByName(properties, className, field) ==
  IF isForeignKey(field.name) THEN properties
  ELSE With(FirstWhere(properties,
                       LAMBDA p : p.kind = "datatype" /\ p.name = camelCase(field.name)),
            LAMBDA i :
              IF i # 0 THEN Accumulate(properties, i, className)
              ELSE Append(properties,
                          OntologyProperty(camelCase(field.name), "datatype",
                                           <<className>>, field.type, field.name, "")))

\* step 2 for one field: a foreign-key marker adds nothing; a field declared
\* with the same source name and type before is merged into that entry
addField(properties, className, field) ==
  IF isForeignKey(field.name) THEN properties
  ELSE With(FirstWhere(properties,
                       LAMBDA p : /\ p.kind = "datatype"
                                  /\ p.declared = field.name
                                  /\ p.range = field.type),
            LAMBDA i :
              IF i # 0 THEN Accumulate(properties, i, className)
              ELSE Append(properties,
                          OntologyProperty(camelCase(field.name), "datatype",
                                           <<className>>, field.type, field.name, "")))

RECURSIVE addFields(_, _, _, _)
addFields(properties, className, fields, k) ==
  IF k > Len(fields) THEN properties
  ELSE With(addField(properties, className, fields[k]),
            LAMBDA next : addFields(next, className, fields, k + 1))

\* step 2: the datatype properties of every class
RECURSIVE buildDatatypeProperties(_, _, _)
buildDatatypeProperties(built, entities, k) ==
  IF built.error # Null \/ k > Len(entities) THEN built
  ELSE With(addFields(built.properties, PascalCase(entities[k].name),
                      entities[k].fields, 1),
            LAMBDA properties :
              buildDatatypeProperties([built EXCEPT !.properties = properties],
                                      entities, k + 1))

\* What the builder does with a verb phrase that an earlier relationship has
\* used, which the design leaves open: reject the source, add the left class
\* to the domain of the earlier property when the range is the same (reject
\* otherwise), or keep one entry per declaration.
RepeatedVerbPolicies == {"reject", "merge", "distinct"}

\* step 3 for one relationship without the resolution of its endpoints
addRelationshipUnresolved(built, entities, r, policy) ==
  [built EXCEPT !.properties =
     Append(@, OntologyProperty(camelCase(r.verbPhrase), "object", <<PascalCase(r.left)>>,
                                PascalCase(r.right), r.verbPhrase, r.cardinality))]

\* step 3 for one relationship: both endpoints are declared somewhere in the
\* source (before or after this line), or the build fails naming the entity
addRelationship(built, entities, r, policy) ==
  With({entities[i].name : i \in 1..Len(entities)},
       LAMBDA declared :
         IF r.left \notin declared
         THEN [built EXCEPT !.error = FatalError("SemanticError", 0, r.left)]
         ELSE IF r.right \notin declared
         THEN [built EXCEPT !.error = FatalError("SemanticError", 0, r.right)]
         ELSE With(FirstWhere(built.properties,
                              LAMBDA p : p.kind = "object" /\ p.name = camelCase(r.verbPhrase)),
                   LAMBDA i :
                     IF i # 0 /\ policy = "reject"
                     THEN [built EXCEPT !.error =
                             FatalError("SemanticError", 0, r.verbPhrase)]
                     ELSE IF i # 0 /\ policy = "merge"
                     THEN IF built.properties[i].range = PascalCase(r.right)
                          THEN [built EXCEPT !.properties =
                                  Accumulate(@, i, PascalCase(r.left))]
                          ELSE [built EXCEPT !.error =
                                  FatalError("SemanticError", 0, r.verbPhrase)]
                     ELSE [built EXCEPT !.properties =
                             Append(@, OntologyProperty(camelCase(r.verbPhrase), "object",
                                                        <<PascalCase(r.left)>>,
                                                        PascalCase(r.right),
                                                        r.verbPhrase, r.cardinality))]))

\* step 3: the object properties, in declaration order
RECURSIVE buildObjectProperties(_, _, _, _, _)
buildObjectProperties(built, entities, relationships, k, policy) ==
  IF built.error # Null \/ k > Len(relationships) THEN built
  ELSE With(addRelationship(built, entities, relationships[k], policy),
            LAMBDA next :
              buildObjectProperties(next, entities, relationships, k + 1, policy))

\* step 5: the outgoing relationship names of a class
adjacency(properties, className) ==
  With(SelectSeq(properties,
                 LAMBDA p : p.kind = "object" /\ className \in Range(p.domain)),
       LAMBDA outgoing : Distinct([i \in 1..Len(outgoing) |-> outgoing[i].name]))

\* Semantic Model Builder: the Ontology Model of the declarations, or a SemanticError
build(ir, policy) ==
  With(With(With(buildClasses(BuilderStart, ir.entities, 1),
                 LAMBDA classes : buildDatatypeProperties(classes, ir.entities, 1)),
            LAMBDA datatype :
              buildObjectProperties(datatype, ir.entities, ir.relationships, 1, policy)),
       LAMBDA built :
         IF built.error # Null THEN built
         ELSE [classes |-> built.classes,
               properties |-> built.properties,
               adjacency |-> [i \in 1..Len(built.classes) |->
                                adjacency(built.properties, built.classes[i].name)],
               error |-> Null])

\* erd/erd.md of the repository: the erDiagram block (lines 4 to 85), line by line
RepositoryErd ==
  << "erDiagram", "  ORGANISATION {", "    string id",
     "    string name", "    string type", "    string jurisdiction",
     "    date   disbanded_on", "  }", "", "  POLITICAL_WING {",
     "    string id", "    string organisation_id", "    string name",
     "    string ideology", "  }", "", "  PERSON {", "    string id",
     "    string full_name", "    date   date_of_birth",
     "    string nationality", "  }", "", "  ACTION {", "    string id",
     "    string actor_person_id", "    string actor_organisation_id",
     "    string action_type", "    datetime occurred_at",
     "    string location", "  }", "", "  CAMPAIGN {", "    string id",
     "    string name", "    string campaign_type", "    date   start_date",
     "    date   end_date", "    string description", "  }", "", "  ROLE {",
     "    string id", "    string name", "    string description", "  }", "",
     "  SOCIAL_MEDIA_PROFILE {", "    string id", "    string platform",
     "    string handle", "    string person_id",
     "    string organisation_id", "  }", "", "  POST {", "    string id",
     "    string social_media_profile_id", "    datetime posted_at",
     "    string content_hash", "    string url", "  }", "",
     "  ORGANISATION ||--o{ POLITICAL_WING : has",
     "  PERSON ||--o{ ORGANISATION : member_of", "",
     "  PERSON ||--o{ ACTION : performs",
     "  ORGANISATION ||--o{ ACTION : performs", "",
     "  ORGANISATION ||--o{ CAMPAIGN : runs",
     "  PERSON ||--o{ CAMPAIGN : runs", "",
     "  CAMPAIGN ||--o{ ACTION : includes", "",
     "  PERSON ||--o{ SOCIAL_MEDIA_PROFILE : owns",
     "  ORGANISATION ||--o{ SOCIAL_MEDIA_PROFILE : owns", "",
     "  SOCIAL_MEDIA_PROFILE ||--o{ POST : publishes", "",
     "  ORGANISATION ||--o{ ORGANISATION : splinters_into",
     "  ORGANISATION ||--o{ ROLE : defines", "  PERSON ||--o{ ROLE : holds" >>

\* relationships before and between the entity blocks they name, a foreign
\* key, a self-reference
ErdForward ==
  << "erDiagram", "  PERSON ||--o{ ORGANISATION : member_of", "  PERSON {",
     "    string id", "    string full_name", "    date date_of_birth", "  }",
     "  ORGANISATION ||--o{ ORGANISATION : splinters_into", "  ORGANISATION {",
     "    string id", "    string name", "    string parent_organisation_id", "  }",
     "  CAMPAIGN {", "    string id", "  }" >>

\* ErdForward with a relationship to an entity that is declared nowhere
ErdDangling == ErdForward \o << "  PERSON |o--o{ ROLE : holds" >>

\* an unknown scalar type
ErdBadType == << "erDiagram", "  PERSON {", "    string id", "    int age", "  }" >>

\* a block that is not closed
ErdUnterminated == << "erDiagram", "  PERSON {", "    string id" >>

\* two entity names with the same PascalCase transform
ErdCollision == << "erDiagram", "  SOCIAL_MEDIA {", "  }", "  SOCIAL__MEDIA {", "  }" >>

\* fields with the same transformed name: same source name and type (id,
\* name), same source name and another type (start_date), another source
\* name and the same type (full_name, fullName)
ErdFields ==
  << "erDiagram", "  EVENT {", "    string id", "    string name",
     "    date start_date", "    string full_name", "  }", "  CAMPAIGN {",
     "    string id", "    string name", "    string start_date",
     "    string fullName", "    string event_id", "  }",
     "  EVENT ||--|{ CAMPAIGN : part_of" >>

Sources == {RepositoryErd, ErdForward, ErdDangling, ErdBadType, ErdUnterminated,
            ErdCollision, ErdFields}

\* Sources put together from up to MaxChunks different chunks, in any order:
\* entity blocks, and relationship lines that may come before the blocks they
\* name, name a block that is not there, or repeat a verb phrase.
MaxChunks == 3
Chunks ==
  { << "  PERSON {", "    string id", "    string full_name",
       "    string organisation_id", "  }" >>,
    << "  ORGANISATION {", "    string id", "    date founded_on", "  }" >>,
    << "  ROLE {", "    string id", "    datetime founded_on", "  }" >>,
    << "  PERSON ||--o{ ORGANISATION : member_of" >>,
    << "  ORGANISATION ||--o{ ORGANISATION : member_of" >>,
    << "  PERSON }o--|| ROLE : holds" >> }
Arrangements(n) ==
  {chunks \in [1..n -> Chunks] : \A i, j \in 1..n : chunks[i] = chunks[j] => i = j}
ChunkSources ==
  {Concat(chunks) : chunks \in UNION {Arrangements(n) : n \in 1..MaxChunks}}

(***************************************************************************)
(* scripts/generate_ontology.py: the emitters and the artifact files       *)
(***************************************************************************)
Triple(subject, predicate, object) == <<subject, predicate, object>>

\* the triples of one property: its kind, one domain axiom per class of the
\* domain (none for the universal sentinel), its range
propertyTriples(prop) ==
  << Triple(prop.name, "rdf:type",
            IF prop.kind = "object" THEN "owl:ObjectProperty" ELSE "owl:DatatypeProperty") >>
  \o With(SelectSeq(prop.domain, LAMBDA className : className # UniversalDomain),
          LAMBDA domain : [i \in 1..Len(domain) |->
                             Triple(prop.name, "rdfs:domain", domain[i])])
  \o << Triple(prop.name, "rdfs:range",
               IF prop.kind = "object" THEN prop.range ELSE "xsd:" \o prop.range) >>

\* Ontology Emitter: ontology/sintology.ttl
ontologyDocument(model) ==
  [classes |-> Concat([i \in 1..Len(model.classes) |->
                         << Triple(model.classes[i].name, "rdf:type", "owl:Class"),
                            Triple(model.classes[i].name, "rdfs:label",
                                   model.classes[i].label) >>]),
   properties |-> Concat([i \in 1..Len(model.properties) |->
                            propertyTriples(model.properties[i])])]

\* Schema Emitter: ontology/ontology.json
schemaDocument(model) ==
  [classes |-> [i \in 1..Len(model.classes) |->
                  Class(model.classes[i].name, model.classes[i].label)],
   properties |-> [i \in 1..Len(model.properties) |->
                     [name |-> model.properties[i].name,
                      kind |-> model.properties[i].kind,
                      domain |-> model.properties[i].domain,
                      range |-> model.properties[i].range]]]

\* A file is the sequence of the parts written to it so far; an emitted
\* document is written in two parts, its classes and then its properties.
Part(name, items) == [part |-> name, items |-> items]
FileOf(document) ==
  << Part("classes", document.classes), Part("properties", document.properties) >>
\* the path names no file
Absent == << Part("absent", <<>>) >>
isComplete(file) ==
  file # Absent /\ [i \in 1..Len(file) |-> file[i].part] = <<"classes", "properties">>

\* JSON.parse of a file: the document, Null when the text is cut short
documentOf(file) ==
  IF isComplete(file) THEN [classes |-> file[1].items, properties |-> file[2].items]
  ELSE Null

\* one invocation up to the first write: parse, build, emit
generate(lines, policy) ==
  With(parse(lines),
       LAMBDA ir :
         IF ir.error # Null THEN [error |-> ir.error]
         ELSE With(build(ir, policy),
                   LAMBDA model :
                     IF model.error # Null THEN [error |-> model.error]
                     ELSE [error |-> Null, ir |-> ir, model |-> model,
                           ontology |-> FileOf(ontologyDocument(model)),
                           schema |-> FileOf(schemaDocument(model))]))

(***************************************************************************)
(* scripts/generate_ontology.py: one run of the pipeline                   *)
(***************************************************************************)
Targets == {"ontology", "schema"}
TempOf == [ontology |-> "ontologyTmp", schema |-> "schemaTmp"]

Write(file, part) == [op |-> "write", file |-> file, part |-> part]
Rename(file) == [op |-> "rename", file |-> file]

\* the file operations of a successful run: each artifact is written to its
\* temporary path and then renamed over its target, the ontology document first
Plan ==
  << Write("ontology", 1), Write("ontology", 2), Rename("ontology"),
     Write("schema", 1), Write("schema", 2), Rename("schema") >>

NoFiles ==
  [ontology |-> Absent, schema |-> Absent, ontologyTmp |-> Absent, schemaTmp |-> Absent]

\* the two artifacts as a run that generated `outcome` leaves them
ArtifactsOf(outcome) == [ontology |-> outcome.ontology, schema |-> outcome.schema]
FilesOf(outcome) ==
  [NoFiles EXCEPT !.ontology = outcome.ontology, !.schema = outcome.schema]

\* the instance store (data/graph.json) and the ingestion tool at rest
EmptyStore == [nodes |-> <<>>, edges |-> <<>>]
IngestIdle == [pc |-> "idle", batch |-> <<>>, next |-> 1, report |-> <<>>]

\* invocations of the generator in one behaviour
MaxGenRuns == 2

\* The generator between runs.  `before` holds the two artifacts as the
\* current run found them, `previous` the source and artifacts of the last
\* run that succeeded.
GenIdle(policy, files, previous) ==
  [pc |-> "idle", policy |-> policy, runs |-> 0, source |-> <<>>, result |-> Null,
   plan |-> <<>>, exit |-> 0, error |-> Null, files |-> files,
   before |-> [ontology |-> files.ontology, schema |-> files.schema],
   previous |-> previous, store |-> EmptyStore, ingest |-> IngestIdle]

\* no artifact has been generated yet
GenInit == gen = GenIdle("merge", NoFiles, Null)

\* the fields of the run that starts: the artifacts as it finds them
runStarting(g, lines) ==
  [g EXCEPT !.runs = @ + 1, !.source = lines, !.result = Null, !.plan = <<>>,
            !.error = Null,
            !.before = [ontology |-> g.files.ontology, schema |-> g.files.schema]]

\* the run ends with a fatal error: non-zero exit
runFailed(g, error) == [g EXCEPT !.pc = "done", !.exit = 1, !.error = error, !.plan = <<>>]

\* main() up to the first write
runGenerated(g, lines, outcome) ==
  IF outcome.error # Null THEN runFailed(runStarting(g, lines), outcome.error)
  ELSE [runStarting(g, lines) EXCEPT !.pc = "emitting", !.result = outcome,
                                     !.plan = Plan, !.exit = 0]

\* a write in place: the part goes to the target itself, which a first part truncates
applyInPlace(files, emitted, op) ==
  IF op.op = "write"
  THEN [files EXCEPT ![op.file] =
          (IF op.part = 1 THEN <<>> ELSE @) \o <<emitted[op.file][op.part]>>]
  ELSE files

\* a write that never truncates: the part is appended to whatever the
\* temporary path holds
applyAppending(files, emitted, op) ==
  IF op.op = "write"
  THEN [files EXCEPT ![TempOf[op.file]] =
          (IF @ = Absent THEN <<>> ELSE @) \o <<emitted[op.file][op.part]>>]
  ELSE [files EXCEPT ![op.file] = files[TempOf[op.file]],
                     ![TempOf[op.file]] = Absent]

\* one file operation: a part is appended to the temporary file (created
\* empty by its first part); rename() replaces the target by the temporary file
apply(files, emitted, op) ==
  IF op.op = "write"
  THEN [files EXCEPT ![TempOf[op.file]] =
          (IF op.part = 1 THEN <<>> ELSE @) \o <<emitted[op.file][op.part]>>]
  ELSE [files EXCEPT ![op.file] = files[TempOf[op.file]],
                     ![TempOf[op.file]] = Absent]

\* the run after its next file operation; after the last one it exits with 0
runEmitted(g) ==
  With(apply(g.files, g.result, Head(g.plan)),
       LAMBDA files :
         IF Len(g.plan) > 1
         THEN [g EXCEPT !.files = files, !.plan = Tail(@)]
         ELSE [g EXCEPT !.files = files, !.plan = <<>>, !.pc = "done", !.exit = 0,
                        !.previous = [source |-> g.source,
                                      ontology |-> files.ontology,
                                      schema |-> files.schema]])

\* a step of the generator or of the ingestion tool
GenStep(next) ==
  /\ gen' = next
  /\ UNCHANGED <<explorerVars, qaVars, taVars, callVars>>

\* the generator is invoked on a source it can read and parses, builds and emits
GenStart(sources) ==
  /\ gen.pc \in {"idle", "done"}
  /\ gen.runs < MaxGenRuns
  /\ \E lines \in sources :
       \E outcome \in {generate(lines, gen.policy)} :
         GenStep(runGenerated(gen, lines, outcome))

\* the generator is invoked and cannot read the source
GenUnreadable ==
  /\ gen.pc \in {"idle", "done"}
  /\ gen.runs < MaxGenRuns
  /\ GenStep(runFailed(runStarting(gen, <<>>), FatalError("IOError", 0, "erd/erd.md")))

\* the next file operation of the run succeeds
EmitStep ==
  /\ gen.pc = "emitting"
  /\ GenStep(runEmitted(gen))

\* the next file operation of the run fails: the target or the temporary path
\* cannot be written
EmitFailed ==
  /\ gen.pc = "emitting"
  /\ GenStep(runFailed(gen, FatalError("IOError", 0, Head(gen.plan).file)))

\* the explorer page is loaded while the generator is at this point: init()
\* fetches /ontology/ontology.json as the file is now
PageLoad ==
  /\ isComplete(gen.files.schema)
  /\ InitLoaded({documentOf(gen.files.schema)}, Graphs)

\* response.json() rejects a text that is cut short, fetchJson() a missing file
PageLoadFailed ==
  /\ ~isComplete(gen.files.schema)
  /\ InitFailed

(***************************************************************************)
(* scripts/ingest.py: the Instance Validator and a batch load              *)
(***************************************************************************)
Violation(rule, cites) == [rule |-> rule, cites |-> cites]
NodeInstance(node) == [kind |-> "node", value |-> node]
EdgeInstance(edge) == [kind |-> "edge", value |-> edge]

\* the class of the stored node with that id, "" when there is none
classOfNode(nodes, id) ==
  With(SelectSeq(nodes, LAMBDA node : node.id = id),
       LAMBDA found : IF found = <<>> THEN "" ELSE found[1].class)

\* Node validation: the class exists; every key is a datatype property whose
\* domain includes the class or the universal sentinel
validateNode(schema, node) ==
  (IF \E c \in Range(schema.classes) : c.name = node.class THEN <<>>
   ELSE << Violation("class", node.class) >>)
  \o With(SelectSeq(node.properties,
                    LAMBDA entry :
                      ~ \E p \in Range(schema.properties) :
                          /\ p.kind = "datatype" /\ p.name = entry[1]
                          /\ Range(p.domain) \cap {node.class, UniversalDomain} # {}),
          LAMBDA unknown : [i \in 1..Len(unknown) |-> Violation("property", unknown[i][1])])

\* Edge validation with the first failing rule only: an edge that breaks the
\* domain rule is not tested against the range
validateEdgeFirstRule(schema, nodes, edge) ==
  With(SelectSeq(schema.properties, LAMBDA p : p.kind = "object" /\ p.name = edge.type),
       LAMBDA named :
         IF named = <<>> THEN << Violation("type", edge.type) >>
         ELSE IF \E p \in Range(named) : classOfNode(nodes, edge.from) \in Range(p.domain)
         THEN <<>>
         ELSE << Violation("domain", classOfNode(nodes, edge.from)) >>)

\* Edge validation: the type names an object property; the class of the
\* `from` node is in its domain; the class of the `to` node is its range
validateEdge(schema, nodes, edge) ==
  With(SelectSeq(schema.properties, LAMBDA p : p.kind = "object" /\ p.name = edge.type),
       LAMBDA named :
         IF named = <<>> THEN << Violation("type", edge.type) >>
         ELSE IF \E p \in Range(named) :
                   /\ classOfNode(nodes, edge.from) \in Range(p.domain)
                   /\ classOfNode(nodes, edge.to) = p.range
         THEN <<>>
         ELSE (IF \E p \in Range(named) : classOfNode(nodes, edge.from) \in Range(p.domain)
               THEN <<>>
               ELSE << Violation("domain", classOfNode(nodes, edge.from)) >>)
              \o (IF \E p \in Range(named) : classOfNode(nodes, edge.to) = p.range
                  THEN <<>>
                  ELSE << Violation("range", classOfNode(nodes, edge.to)) >>))

validate(schema, store, instance) ==
  IF instance.kind = "node" THEN validateNode(schema, instance.value)
  ELSE validateEdge(schema, store.nodes, instance.value)

\* the store with an accepted instance added
stored(store, instance) ==
  IF instance.kind = "node" THEN [store EXCEPT !.nodes = Append(@, instance.value)]
  ELSE [store EXCEPT !.edges = Append(@, instance.value)]

\* --load: the next instance of the batch is validated, stored when it has no
\* violation, and reported; the tool goes on to the instance after it
ingestNext(g, schema) ==
  With(g.ingest.batch[g.ingest.next],
       LAMBDA instance :
         With(validate(schema, g.store, instance),
              LAMBDA violations :
                [g EXCEPT !.store = IF violations = <<>> THEN stored(@, instance) ELSE @,
                          !.ingest.report = Append(@, [id |-> instance.value.id,
                                                      violations |-> violations]),
                          !.ingest.next = @ + 1,
                          !.ingest.pc = IF g.ingest.next = Len(g.ingest.batch)
                                        THEN "done" ELSE "loading"]))

\* the payloads the tool is given
BatchPeople ==
  << NodeInstance(Node("p_0001", "Person", << <<"fullName", "Alex Parker">> >>)),
     NodeInstance(Node("p_0002", "Person", << <<"middleName", "Lee">> >>)),
     NodeInstance(Node("o_0001", "Organisation", << <<"name", "Org One">> >>)),
     NodeInstance(Node("c_0001", "Campaign", <<>>)),
     EdgeInstance(Edge("e_0001", "memberOf", "c_0001", "p_0001")),
     EdgeInstance(Edge("e_0002", "memberOf", "p_0001", "p_0001")),
     EdgeInstance(Edge("e_0003", "memberOf", "p_0001", "o_0001")),
     EdgeInstance(Edge("e_0004", "memberOf", "p_0002", "o_0001")),
     EdgeInstance(Edge("e_0005", "splintersInto", "o_0001", "o_0001")) >>
BatchEdgesFirst ==
  << EdgeInstance(Edge("e_0001", "memberOf", "p_0001", "o_0001")),
     NodeInstance(Node("p_0001", "Person", <<>>)),
     NodeInstance(Node("o_0001", "Organisation", << <<"fullName", "Org One">> >>)),
     NodeInstance(Node("o_0002", "Organisation", << <<"id", "o_0002">> >>)),
     EdgeInstance(Edge("e_0002", "memberOf", "p_0001", "c_0001")),
     EdgeInstance(Edge("e_0003", "knows", "p_0001", "o_0002")),
     EdgeInstance(Edge("e_0004", "memberOf", "p_0001", "p_0001")),
     EdgeInstance(Edge("e_0005", "memberOf", "p_0001", "o_0002")) >>
BatchActions ==
  << NodeInstance(Node("o_0001", "Organisation", <<>>)),
     NodeInstance(Node("a_0001", "Action", << <<"actionType", "rally">> >>)),
     NodeInstance(Node("r_0001", "Role", << <<"name", "Chair">> >>)),
     EdgeInstance(Edge("e_0001", "performs", "o_0001", "a_0001")),
     EdgeInstance(Edge("e_0002", "performs", "r_0001", "a_0001")),
     EdgeInstance(Edge("e_0003", "defines", "o_0001", "r_0001")),
     EdgeInstance(Edge("e_0004", "defines", "o_0001", "a_0001")) >>
Batches == {BatchPeople, BatchEdgesFirst, BatchActions}

\* the tool is started on a payload; it reads the schema document
IngestStart(batches) ==
  /\ gen.ingest.pc \in {"idle", "done"}
  /\ isComplete(gen.files.schema)
  /\ \E batch \in batches :
       GenStep([gen EXCEPT !.store = EmptyStore,
                           !.ingest = [pc |-> "loading", batch |-> batch, next |-> 1,
                                       report |-> <<>>]])

IngestNext ==
  /\ gen.ingest.pc = "loading"
  /\ GenStep(ingestNext(gen, documentOf(gen.files.schema)))

(***************************************************************************)
(* text-analysis.js: mergeAdjacentFragments() and mapEntitiesToOntology()  *)
(* called on their own                                                     *)
(***************************************************************************)
\* a text and the spans of it that the NER model can report as entities:
\* "Mc", "aleer", "Mcaleer", "Smith", "at", "Org", "One",
\* "Internationalorganisations" and "Ltd"
FragmentText == "Mcaleer Smith at Org One  Internationalorganisations Ltd"
FragmentSpans ==
  << <<0, 2>>, <<2, 7>>, <<0, 7>>, <<8, 13>>, <<14, 16>>, <<17, 20>>, <<21, 24>>,
     <<26, 52>>, <<53, 56>> >>

\* the entity performNER() has for a span before merging
Fragment(k) ==
  Entity(Substring(FragmentText, FragmentSpans[k][1], FragmentSpans[k][2]),
         (31 - k) * 2^5, FragmentSpans[k][1], FragmentSpans[k][2])

\* the entity lists of one type: up to MaxFragments spans, in text order
MaxFragments == 3
FragmentLists ==
  {[i \in 1..Len(picks) |-> Fragment(picks[i])] :
     picks \in {f \in UNION {[1..n -> 1..Len(FragmentSpans)] : n \in 0..MaxFragments} :
                  \A i \in 1..(Len(f) - 1) : f[i] < f[i + 1]}}

FragmentTypes == {"PER", "LOC"}

MergeCalls ==
  {[pc |-> "called", fn |-> "mergeAdjacentFragments", entities |-> entities,
    text |-> FragmentText, type |-> type, result |-> Null] :
     entities \in FragmentLists, type \in FragmentTypes}

\* the entity types of an NER answer, up to MaxTypes of them in any order
NerTypes == {"PER", "PERSON", "ORG", "LOC", "MISC"}
MaxTypes == 3
TypeLists ==
  {keys \in UNION {[1..n -> NerTypes] : n \in 0..MaxTypes} :
     \A i, j \in 1..Len(keys) : i # j => keys[i] # keys[j]}

\* entities as performNER() resolves them, one entity per type, none for the
\* types of `empty`
EntityMaps ==
  {[i \in 1..Len(keys) |->
      [key |-> keys[i],
       items |-> IF keys[i] \in empty THEN <<>>
                 ELSE << Entity(ToLower(keys[i]) \o " one", 30 * 2^5, i, i + 3) >>]] :
     keys \in TypeLists, empty \in {{}, {"PER"}}}

\* a classifier answer over twelve labels in which the labels at the
\* positions of `low` score below the threshold
MapLabels ==
  << "Topic", "Operation", "Article", "Person", "Document", "Event", "Location",
     "Mission", "Role", "Campaign", "Social Media Profile", "Organisation" >>
LowScores == {{}, 1..12, {2}, {1, 2}, {2, 4}, {1, 3, 5}}
ClassificationInputs ==
  {[labels |-> MapLabels,
    scores |-> [i \in 1..Len(MapLabels) |-> IF i \in low THEN 3 * 2^5 ELSE (31 - i) * 2^5]] :
     low \in LowScores}
  \cup {Null}

MapCalls ==
  {[pc |-> "called", fn |-> "mapEntitiesToOntology", entities |-> entities,
    classification |-> classification, result |-> Null] :
     entities \in EntityMaps, classification \in ClassificationInputs}

\* graphs over four nodes with up to MaxEdges edges, self-loops and cycles
\* among them
ExpandIds == <<"n_1", "n_2", "n_3", "n_4">>
MaxEdges == 3
EdgePairs == [i \in 1..16 |-> <<ExpandIds[((i - 1) \div 4) + 1], ExpandIds[((i - 1) % 4) + 1]>>]
ExpandGraphs ==
  {[nodes |-> [i \in 1..Len(ExpandIds) |-> Node(ExpandIds[i], "Person", <<>>)],
    edges |-> [i \in 1..Len(picks) |->
                 Edge("e", "knows", EdgePairs[picks[i]][1], EdgePairs[picks[i]][2])]] :
     picks \in {f \in UNION {[1..n -> 1..16] : n \in 0..MaxEdges} :
                  \A i \in 1..(Len(f) - 1) : f[i] < f[i + 1]}}

\* what the slider can be set to, and the sets expandFromIds() starts from
SliderValues == {0, 1, 2, maxDepthSentinel}
ExpandStarts == {{}, {"n_1"}, {"n_2"}, {"n_3"}, {"n_4"}, {"n_1", "n_2"}}

ExpandCalls ==
  {[pc |-> "called", fn |-> "expandFromIds", graph |-> graph, ids |-> ids,
    depth |-> IF value >= maxDepthSentinel THEN Infinity ELSE value, result |-> Null] :
     graph \in ExpandGraphs, ids \in ExpandStarts, value \in SliderValues}

CallStep(next) ==
  /\ call' = next
  /\ UNCHANGED <<explorerVars, qaVars, taVars, genVars>>

\* mergeAdjacentFragments(entities, text, entityType) returns
MergeReturn ==
  /\ call.pc = "called" /\ call.fn = "mergeAdjacentFragments"
  /\ CallStep([call EXCEPT !.pc = "returned",
                           !.result = mergeAdjacentFragments(call.entities, call.text,
                                                             call.type)])

\* expandFromIds(ids, depth) returns; state.graph is the graph of the call
ExpandReturn ==
  /\ call.pc = "called" /\ call.fn = "expandFromIds"
  /\ CallStep([call EXCEPT !.pc = "returned",
                           !.result = expandFromIds([graph |-> call.graph], call.ids,
                                                    call.depth)])

\* mapEntitiesToOntology(entities, classification) returns; state.ontology is set
MapReturn ==
  /\ call.pc = "called" /\ call.fn = "mapEntitiesToOntology"
  /\ CallStep([call EXCEPT !.pc = "returned",
                           !.result = mapEntitiesToOntology(SchemaA, call.entities,
                                                            call.classification)])

(***************************************************************************)
(* Specifications                                                          *)
(***************************************************************************)
\* no answerQuestion() call is outstanding
QAIdle == \A c \in Calls : qaCall[c].pc = "idle"

\* a step the user takes between two questions
BetweenQuestions(Step) == QAIdle /\ Step

\* The explorer page, with a user who works on the view between questions and
\* asks one question at a time.
Init == page = "explorer" /\ ExplorerInit /\ QAInit /\ TAInit /\ CallInit /\ GenInit

Next ==
  \/ InitLoaded(Schemas, Graphs)
  \/ InitFailed
  \/ BetweenQuestions(ClassFilterChange)
  \/ BetweenQuestions(SearchInput)
  \/ BetweenQuestions(DepthInput)
  \/ BetweenQuestions(NodeClick)
  \/ BetweenQuestions(clearFilters)
  \/ BetweenQuestions(setView)
  \/ BetweenQuestions(ViewOntology)
  \/ BetweenQuestions(ExportView)
  \/ AskClick(1)
  \/ EnterKey(1)
  \/ AcceptClick(1)
  \/ CancelClick(1)
  \/ LibLoaded
  \/ ModelLoaded(1)
  \/ Answered(1)

Spec == Init /\ [][Next]_vars

\* The table view over every schema document of TableSchemas.
NextTable ==
  \/ InitLoaded(TableSchemas, Graphs)
  \/ ClassFilterChange
  \/ setView

SpecTable == Init /\ [][NextTable]_vars

\* The text-analysis page, one analysis after the other: the user starts no
\* analysis while one is outstanding.
InitTA == page = "text-analysis" /\ ExplorerInit /\ QAInit /\ TAInit /\ CallInit /\ GenInit

NextTA ==
  \/ TAInitLoaded(TASchemas)
  \/ TAInitFailed
  \/ AnalyzeClick(1)
  \/ TAAcceptClick(1)
  \/ TACancelClick(1)
  \/ PollTick(1)
  \/ WorkerReceive
  \/ NerLoaded
  \/ ClassifierLoaded
  \/ NerDone
  \/ ClassifyDone
  \/ Deliver
  \/ ExportClick
  \/ ToggleClick
  \/ ClearClick

SpecTA == InitTA /\ [][NextTA]_vars

\* The explorer with graphs whose context is about MAX_CONTEXT_LENGTH long.
NextContext ==
  \/ InitLoaded(Schemas, LongGraphs)
  \/ BetweenQuestions(ClassFilterChange)
  \/ BetweenQuestions(setView)
  \/ AskClick(1)
  \/ AcceptClick(1)
  \/ LibLoaded
  \/ ModelLoaded(1)
  \/ Answered(1)

SpecContext == Init /\ [][NextContext]_vars

\* Either page, with everything that asks for consent or loads a model: the
\* questions of the explorer (overlapping ones too) and the analyses of the
\* text-analysis page up to the point where the models are used.
Pages == {"explorer", "text-analysis"}

InitConsent == page \in Pages /\ ExplorerInit /\ QAInit /\ TAInit /\ CallInit /\ GenInit

OnExplorer(Step) == page = "explorer" /\ Step
OnTextAnalysis(Step) == page = "text-analysis" /\ Step

NextConsent ==
  \/ OnExplorer(InitLoaded(Schemas, Graphs))
  \/ OnExplorer(\E c \in Calls : AskClick(c))
  \/ OnExplorer(\E c \in Calls : EnterKey(c))
  \/ OnExplorer(\E m \in Calls : AcceptClick(m))
  \/ OnExplorer(\E m \in Calls : CancelClick(m))
  \/ OnExplorer(\E m \in Calls : BackdropClick(m))
  \/ OnExplorer(LibLoaded)
  \/ OnExplorer(LibFailed)
  \/ OnExplorer(\E c \in Calls : ModelLoaded(c))
  \/ OnExplorer(\E c \in Calls : ModelFailed(c))
  \/ OnExplorer(\E c \in Calls : Answered(c))
  \/ OnTextAnalysis(TAInitLoaded(Schemas))
  \/ OnTextAnalysis(\E c \in Runs : AnalyzeClick(c))
  \/ OnTextAnalysis(\E m \in Runs : TAAcceptClick(m))
  \/ OnTextAnalysis(\E m \in Runs : TACancelClick(m))
  \/ OnTextAnalysis(\E m \in Runs : TABackdropClick(m))
  \/ OnTextAnalysis(\E c \in Runs : PollTick(c))
  \/ OnTextAnalysis(\E c \in Runs : PollTimeout(c))
  \/ OnTextAnalysis(WorkerReceive)
  \/ OnTextAnalysis(NerLoaded)
  \/ OnTextAnalysis(ClassifierLoaded)
  \/ OnTextAnalysis(LoadFailed)
  \/ OnTextAnalysis(InferenceFailed)
  \/ OnTextAnalysis(Deliver)

SpecConsent == InitConsent /\ [][NextConsent]_vars

\* The generator run again and again on the sources, each file operation of a
\* run succeeding or failing, and the explorer page loaded at any point of it.
\* The artifacts are absent at first, or those of an earlier run on ErdForward.
InitGen ==
  /\ page = "explorer" /\ ExplorerInit /\ QAInit /\ TAInit /\ CallInit
  /\ \E policy \in {"merge"} :
       \/ gen = GenIdle(policy, NoFiles, Null)
       \/ \E outcome \in {generate(ErdForward, policy)} :
            gen = GenIdle(policy, FilesOf(outcome),
                          [source |-> ErdForward, ontology |-> outcome.ontology,
                           schema |-> outcome.schema])

GenSources == {ErdForward, ErdFields, ErdDangling, ErdBadType}

NextGen ==
  \/ GenStart(GenSources)
  \/ GenUnreadable
  \/ EmitStep
  \/ EmitFailed
  \/ PageLoad
  \/ PageLoadFailed

SpecGen == InitGen /\ [][NextGen]_vars

\* One run of the generator up to its first write, on every source.
InitBuild ==
  /\ page = "explorer" /\ ExplorerInit /\ QAInit /\ TAInit /\ CallInit
  /\ \E policy \in RepeatedVerbPolicies : gen = GenIdle(policy, NoFiles, Null)

NextBuild == gen.pc = "idle" /\ GenStart(Sources \cup ChunkSources)

SpecBuild == InitBuild /\ [][NextBuild]_vars

\* Batch loads against the schema document of a source that builds.
ValidSources == {RepositoryErd, ErdForward, ErdFields}

InitIngest ==
  /\ page = "explorer" /\ ExplorerInit /\ QAInit /\ TAInit /\ CallInit
  /\ \E policy \in RepeatedVerbPolicies \ {"reject"}, lines \in ValidSources :
       \E outcome \in {generate(lines, policy)} :
         gen = GenIdle(policy, FilesOf(outcome),
                       [source |-> lines, ontology |-> outcome.ontology,
                        schema |-> outcome.schema])

NextIngest ==
  \/ IngestStart(Batches)
  \/ IngestNext

SpecIngest == InitIngest /\ [][NextIngest]_vars

\* The two post-processing functions of the text-analysis page, each called
\* once on every input of MergeCalls and MapCalls.
InitPost ==
  /\ page = "text-analysis" /\ ExplorerInit /\ QAInit /\ TAInit /\ GenInit
  /\ call \in MergeCalls \cup MapCalls

NextPost ==
  \/ MergeReturn
  \/ MapReturn

SpecPost == InitPost /\ [][NextPost]_vars

\* expandFromIds() called once on every graph, start set and depth of
\* ExpandCalls.
InitExpand ==
  /\ page = "explorer" /\ ExplorerInit /\ QAInit /\ TAInit /\ GenInit
  /\ call \in ExpandCalls

NextExpand == ExpandReturn

SpecExpand == InitExpand /\ [][NextExpand]_vars

(***************************************************************************)
(* Properties of the explorer page                                         *)
(***************************************************************************)
\* C1: the schema document and the graph are set by init() and by nothing
\* else: a step that starts with either of them loaded leaves both as they
\* are, and a step that loads them is the one that ends the fetch.
C1_LoadedOnceReadOnly ==
  [][/\ (state.ontology # Null \/ state.graph # Null)
        => (state'.ontology = state.ontology /\ state'.graph = state.graph)
     /\ (state'.ontology # state.ontology \/ state'.graph # state.graph)
        => (initPc = "fetching" /\ initPc' = "loaded")]_vars

\* C1: the documents are loaded, every kind of view setting has been changed,
\* and a question has been answered.
C1_Witness ==
  /\ initPc = "loaded"
  /\ state.ontology \in Schemas /\ state.graph \in Graphs
  /\ state.filter # "All" /\ state.focusId # "" /\ state.searchTerm # ""
  /\ state.searchDepth = Infinity /\ state.view = "table"
  /\ out.kind = "answer"

\* the edges of the graph between two nodes of the current view
InducedEdges(s, ids) == {e \in Range(s.graph.edges) : e.from \in ids /\ e.to \in ids}

\* every line of a built context is about a node of the view or an induced edge
ContextInView(s, built, ids) ==
  \A i \in 1..Len(built.items) :
    IF built.items[i].kind = "node" THEN built.items[i].id \in ids
    ELSE \E e \in InducedEdges(s, ids) : e.id = built.items[i].id

\* an export holds nodes of the view and induced edges only
ExportInView(s, payload, nodes) ==
  /\ Range(payload.nodes) \subseteq Range(nodes)
  /\ Range(payload.edges) \subseteq InducedEdges(s, NodeIds(nodes))

\* C4: in every state of the loaded page the context, the graph export and
\* the rendered graph are the induced subgraph of filteredNodes(): what
\* buildContextFromGraph() and exportGraphView() return, and what the last
\* handler passed to the model, downloaded or drew.
C4_SameCurrentView ==
  initPc = "loaded" =>
    \A nodes \in {filteredNodes(state)} :
      /\ \A built \in {buildContextFromGraph(state)} :
           /\ ContextInView(state, built, NodeIds(nodes))
           /\ out.kind = "pipeline" => out.context = built.context
      /\ \A export \in {exportGraphView(state)} :
           /\ export.kind = "download" => ExportInView(state, export.payload, nodes)
           /\ (out.kind = "download" /\ state.view = "graph") => out = export
      /\ rendered.view = "graph" =>
           /\ rendered.nodes = Ids(nodes)
           /\ Range(rendered.edges) \subseteq
                {e.id : e \in InducedEdges(state, NodeIds(nodes))}

\* C4: a context with a relationship line was passed to the model while a
\* search narrowed the view to some of the nodes and some of the edges.
C4_Witness ==
  /\ initPc = "loaded" /\ out.kind = "pipeline"
  /\ state.searchTerm # ""
  /\ Len(filteredNodes(state)) \in 2..(Len(state.graph.nodes) - 1)
  /\ \E i \in 1..Len(buildContextFromGraph(state).items) :
       buildContextFromGraph(state).items[i].kind = "edge"
  /\ InducedEdges(state, NodeIds(filteredNodes(state))) # Range(state.graph.edges)

\* the positions of the schema properties of that kind whose domain list
\* names the class or the universal sentinel
ApplicableAt(properties, className, kind) ==
  {i \in 1..Len(properties) :
     /\ properties[i].kind = kind
     /\ "domain" \in DOMAIN properties[i]
     /\ \E d \in 1..Len(properties[i].domain) :
          properties[i].domain[d] \in {className, UniversalDomain}}

\* the k-th smallest member of a set of numbers
Nth(S, k) == CHOOSE i \in S : Cardinality({j \in S : j < i}) = k - 1

\* the entries of a sequence at the positions of S, in the order of the sequence
EntriesAt(seq, S) == [k \in 1..Cardinality(S) |-> seq[Nth(S, k)]]

\* C2: for every class and kind, applicableProperties() is the schema's
\* properties of that kind whose domain names the class or "owl:Thing", in
\* schema order (none that has no domain); the columns of every table drawn
\* are "id" and then the names of the class's datatype properties, the
\* universal-domain ones among them.
C2_ApplicableProperties ==
  initPc = "loaded" =>
    /\ \A c \in Range(state.ontology.classes), kind \in {"datatype", "object"} :
         applicableProperties(state, c.name, kind)
           = EntriesAt(state.ontology.properties,
                       ApplicableAt(state.ontology.properties, c.name, kind))
    /\ \A t \in 1..Len(rendered.tables) :
         Len(rendered.tables[t].rows) > 0 =>
           \A names \in {EntriesAt(state.ontology.properties,
                                   ApplicableAt(state.ontology.properties,
                                                rendered.tables[t].class, "datatype"))} :
             /\ rendered.tables[t].columns
                  = <<"id">> \o [k \in 1..Len(names) |-> names[k].name]
             /\ \A prop \in Range(state.ontology.properties) :
                  (prop.kind = "datatype" /\ PropDomain(prop) = <<UniversalDomain>>)
                    => prop.name \in Range(Tail(rendered.tables[t].columns))

\* C2: tables are drawn for a schema with a universal datatype property and a
\* datatype property without a domain: one table has the first as its only
\* property column.
C2_Witness ==
  /\ initPc = "loaded" /\ rendered.view = "table"
  /\ state.ontology.properties
       = <<PropNoDomain("note", "datatype"), Prop("id", "datatype", <<UniversalDomain>>)>>
  /\ \E t \in 1..Len(rendered.tables) : rendered.tables[t].columns = <<"id", "id">>

(***************************************************************************)
(* Properties of the consent modals                                        *)
(***************************************************************************)
\* the 'init' messages among the messages on their way to the worker
InitPosted(p) == {i \in 1..Len(p.toWorker) : p.toWorker[i].type = "init"}

\* C3: no model download starts without consent.  Explorer: a call gets to
\* loadTransformers() or to the pipeline factory only from the consent modal
\* of that call, resolved true; the import starts and qaPipeline is set only
\* in such a call; a call that leaves its modal otherwise fails with "User
\* declined model download" and changes nothing of the loading.  Text
\* analysis: the worker is made and 'init' is posted only in a step in which
\* the modal of a run resolved true; a run that leaves its modal otherwise
\* logs "User declined model download", and no worker exists and nothing was
\* posted or loaded; without a worker nothing is loaded at all.
C3_ConsentBeforeDownload ==
  [][/\ \A c \in Calls :
          /\ qaCall'[c].pc \in {"loadLib", "loadModel"} => qaCall'[c].consent = "true"
          /\ (qaCall'[c].pc \in {"loadLib", "loadModel"}
              /\ qaCall[c].pc \notin {"loadLib", "loadModel"})
               => qaCall[c].pc = "consent"
          /\ (qaCall[c].pc = "consent" /\ qaCall'[c].pc = "idle")
               => /\ out' = Alert("Error: User declined model download")
                  /\ qaPipeline' = qaPipeline
                  /\ pipeline' = pipeline
                  /\ transformersPromise' = transformersPromise
     /\ (transformersPromise' = "pending" /\ transformersPromise # "pending")
          => \E c \in Calls : qaCall[c].pc = "consent" /\ qaCall'[c].consent = "true"
     /\ (qaPipeline' /\ ~qaPipeline)
          => \E c \in Calls : qaCall[c].pc = "loadModel" /\ qaCall[c].consent = "true"
     /\ ((ta'.textAnalysisWorker /\ ~ta.textAnalysisWorker)
         \/ Cardinality(InitPosted(ta')) > Cardinality(InitPosted(ta)))
          => \E c \in Runs : ta.run[c].pc = "consent" /\ ta'.run[c].consent = "true"
     /\ \A c \in Runs :
          (ta.run[c].pc = "consent" /\ ta'.run[c].pc # "consent"
           /\ ta'.run[c].consent # "true")
            => /\ ta'.run[c].pc = "idle"
               /\ "Error loading models: User declined model download"
                    \in Range(ta'.console)
               /\ ~ta'.textAnalysisWorker
               /\ ta'.toWorker = <<>> /\ ta'.jobs = <<>>
               /\ ~ta'.nerPipeline /\ ~ta'.classifierPipeline
     /\ ~ta'.textAnalysisWorker
          => /\ ta'.toWorker = <<>> /\ ta'.jobs = <<>> /\ ta'.toMain = <<>>
             /\ ~ta'.nerPipeline /\ ~ta'.classifierPipeline /\ ~ta'.workerReady
    ]_vars

\* C3: on the text-analysis page the user has just declined: the run failed,
\* the decline is logged, and there is no worker.
C3_Witness ==
  /\ page = "text-analysis"
  /\ "Error loading models: User declined model download" \in Range(ta.console)
  /\ ta.status = "Error: Worker not ready"
  /\ ~ta.textAnalysisWorker /\ ta.toWorker = <<>>
  /\ \A c \in Runs : ta.run[c].pc = "idle"

(***************************************************************************)
(* Properties of the question-answering context                            *)
(***************************************************************************)
\* C5: the context buildContextFromGraph() returns, and the one passed to
\* the model, is at most 2000 characters long.
C5_ContextAtMost2000 ==
  initPc = "loaded" =>
    /\ Len(buildContextFromGraph(state).context) <= 2000
    /\ out.kind = "pipeline" => Len(out.context) <= 2000

\* the line of that node or edge lies wholly within the returned context
ListedWhole(built, kind, id) ==
  \E i \in 1..Len(built.items) :
    /\ built.items[i].kind = kind /\ built.items[i].id = id
    /\ built.items[i].end <= Len(built.context)
    /\ built.items[i].end <= MAX_CONTEXT_LENGTH

\* some node of the view, or some edge between nodes of the view, is missing
\* from the returned context, wholly or partly
LeftOut(s, built, nodes) ==
  \/ \E node \in Range(nodes) : ~ListedWhole(built, "node", node.id)
  \/ \E e \in InducedEdges(s, NodeIds(nodes)) : ~ListedWhole(built, "edge", e.id)

\* C6: buildContextFromGraph() returns wasTruncated = true exactly when a
\* node of the view or an edge between nodes of the view is missing from the
\* context; the warning of an answer is that flag.
C6_TruncatedIffLeftOut ==
  initPc = "loaded" =>
    \A built \in {buildContextFromGraph(state)} :
      /\ Len(filteredNodes(state)) > 0
           => (built.wasTruncated <=> LeftOut(state, built, filteredNodes(state)))
      /\ \A c \in Calls :
           qaCall[c].pc = "answering" => qaCall[c].wasTruncated = built.wasTruncated

(***************************************************************************)
(* Properties of the text-analysis page                                    *)
(***************************************************************************)
\* C7: every node of a text-analysis export has the name of a class of the
\* loaded schema as its class, and only datatype properties applicable to
\* that class as property keys.
C7_ExportedNodesValid ==
  ta.out.kind = "download" =>
    \A node \in Range(ta.out.payload.nodes) :
      /\ \E c \in Range(ta.ontology.classes) : c.name = node.class
      /\ \A k \in 1..Len(node.properties) :
           \E i \in ApplicableAt(ta.ontology.properties, node.class, "datatype") :
             ta.ontology.properties[i].name = node.properties[k][1]

\* a relationship label of the analysis scored above the threshold
RelationshipDetected(relationships) ==
  /\ relationships # Null
  /\ \E i \in 1..Len(relationships.scores) : relationships.scores[i] * 10 > ScoreUnit

\* C8: an export of an analysis that detected a relationship above the
\* confidence threshold has edges.
C8_EdgesWhenRelationship ==
  (ta.out.kind = "download"
   /\ RelationshipDetected(ta.out.payload.rawAnalysis.relationships))
    => Len(ta.out.payload.edges) > 0

\* the label-or-name of each class in schema order, followed by the five
\* additional labels unless only existing classes are wanted
ExpectedLabels(ontology, existingOnly) ==
  [i \in 1..Len(ontology.classes) |->
     IF ontology.classes[i].label # "" THEN ontology.classes[i].label
     ELSE ontology.classes[i].name]
  \o (IF existingOnly THEN <<>>
      ELSE <<"Article", "Document", "Event", "Location", "Topic">>)

\* C9: the mode is "existing classes only" at first and changes only in
\* toggleClassMode(), which turns it over; the labels performClassification()
\* posts are those of the mode in force in that step: the classes' labels
\* alone, or followed by the five additional labels.
C9_LabelsByMode ==
  /\ ta.useExistingClassesOnly
  /\ [][/\ \A c \in Runs :
             (ta.run[c].pc = "ner" /\ ta'.run[c].pc = "classify")
               => /\ ta'.useExistingClassesOnly = ta.useExistingClassesOnly
                  /\ ta'.toWorker # <<>>
                  /\ ta'.toWorker[Len(ta'.toWorker)]
                       = Message("classify",
                                 ExpectedLabels(ta.ontology, ta.useExistingClassesOnly))
        /\ ta'.useExistingClassesOnly # ta.useExistingClassesOnly
             => /\ ta'.status = IF ta'.useExistingClassesOnly
                                THEN "Mode: Existing ontology classes only"
                                ELSE "Mode: Will suggest new classes if relevant"
                /\ ta'.run = ta.run /\ ta'.toWorker = ta.toWorker
       ]_vars

\* C9: a classification is on its way to the worker in "include new
\* classes" mode, for a schema with a class that has no label: the labels
\* are the two of the schema and the five additional ones.
C9_Witness ==
  /\ ~ta.useExistingClassesOnly
  /\ ta.ontology = SchemaB
  /\ ta.run[1].pc = "classify"
  /\ ta.toWorker = << Message("classify",
                              <<"Role", "Person", "Article", "Document", "Event",
                                "Location", "Topic">>) >>

\* the entities of that NER type in the results, <<>> when there are none
EntitiesOfType(results, type) ==
  IF \E i \in 1..Len(results.entities) : results.entities[i].key = type
  THEN results.entities[CHOOSE i \in 1..Len(results.entities) :
                          results.entities[i].key = type].items
  ELSE <<>>

\* C10: whenever an analysis found PER (ORG) entities and the schema has the
\* class Person (Organisation), the mapping holds those entities under the
\* key Person (Organisation).
C10_PerToPersonOrgToOrganisation ==
  ta.lastAnalysisResults # Null =>
    \A pair \in {<<"PER", "Person">>, <<"ORG", "Organisation">>} :
      (/\ EntitiesOfType(ta.lastAnalysisResults, pair[1]) # <<>>
       /\ \E c \in Range(ta.ontology.classes) : c.name = pair[2])
        => \E j \in 1..Len(ta.lastAnalysisResults.ontologyEntities) :
             /\ ta.lastAnalysisResults.ontologyEntities[j].key = pair[2]
             /\ Range(EntitiesOfType(ta.lastAnalysisResults, pair[1]))
                  \subseteq Range(ta.lastAnalysisResults.ontologyEntities[j].items)

(***************************************************************************)
(* Renaming a class or a property throughout the documents                 *)
(***************************************************************************)
\* A renaming of one class or one property name; the new name occurs in no
\* document and matches no search input.
Renaming(kind, from, to) == [kind |-> kind, from |-> from, to |-> to]
Renamings == { Renaming("property", "fullName", "legalName"),
               Renaming("property", "memberOf", "belongsTo"),
               Renaming("class", "Person", "Individual") }

RenameName(r, kind, name) == IF r.kind = kind /\ name = r.from THEN r.to ELSE name
RenameNames(r, kind, names) == [i \in 1..Len(names) |-> RenameName(r, kind, names[i])]

RenameOntology(r, ontology) ==
  [classes |-> [i \in 1..Len(ontology.classes) |->
                  [ontology.classes[i] EXCEPT !.name = RenameName(r, "class", @)]],
   properties |-> [i \in 1..Len(ontology.properties) |->
                     With(ontology.properties[i],
                          LAMBDA prop :
                            IF "domain" \in DOMAIN prop
                            THEN [prop EXCEPT !.name = RenameName(r, "property", @),
                                              !.domain = RenameNames(r, "class", @)]
                            ELSE [prop EXCEPT !.name = RenameName(r, "property", @)])]]

RenameGraph(r, graph) ==
  [nodes |-> [i \in 1..Len(graph.nodes) |->
                [graph.nodes[i] EXCEPT
                   !.class = RenameName(r, "class", @),
                   !.properties = [j \in 1..Len(@) |->
                                     <<RenameName(r, "property", @[j][1]), @[j][2]>>]]],
   edges |-> [i \in 1..Len(graph.edges) |->
                [graph.edges[i] EXCEPT !.type = RenameName(r, "property", @)]]]

\* the page after the same actions on the renamed documents: the class filter
\* is the renamed option, everything else the user chose is the same
RenameState(r, s) ==
  [s EXCEPT !.ontology = RenameOntology(r, @), !.graph = RenameGraph(r, @),
            !.filter = RenameName(r, "class", @)]

RenameRendering(r, drawn) ==
  [drawn EXCEPT !.tables = [i \in 1..Len(@) |->
                              [@[i] EXCEPT !.class = RenameName(r, "class", @),
                                           !.columns = RenameNames(r, "property", @)]]]

\* C11: in every state of the loaded explorer, the page on documents in which
\* a class or a property is renamed throughout draws the same nodes and edges
\* with the same labels, and the same tables with the renamed class and
\* column names.
C11_SameUpToRenaming ==
  (initPc = "loaded" /\ state.ontology # Null /\ state.graph # Null) =>
    \A r \in Renamings :
      \A t \in {RenameState(r, state)} :
        /\ Rendering(t) = RenameRendering(r, Rendering(state))
        /\ state.view = "graph" => graphLabels(t) = graphLabels(state)

\* the user accepted the download and the program still holds that: a call
\* that was accepted is being processed, or the model is loaded
Accepted == qaPipeline \/ \E c \in Calls : qaCall[c].consent = "true"

\* C12: once the user has accepted the consent modal on the explorer, no step
\* shows a consent modal, and a download of the Q&A model completes only when
\* no model is loaded yet: the model is loaded at most once.
C12_ConsentAndLoadOnce ==
  [][/\ Accepted => Range(modals') \subseteq Range(modals)
     /\ \A c \in Calls :
          (qaCall[c].pc = "loadModel" /\ qaCall'[c].pc = "answering") => ~qaPipeline]_vars

(***************************************************************************)
(* Properties of the generation pipeline                                   *)
(***************************************************************************)
\* the two artifacts as they are on disk
Artifacts(files) == [ontology |-> files.ontology, schema |-> files.schema]

\* C13: a run that ended with a fatal error (SyntaxError, SemanticError or
\* I/O failure) leaves the ontology document and the schema document exactly
\* as the run found them.
C13_FatalErrorLeavesArtifacts ==
  (gen.pc = "done" /\ gen.exit # 0) => Artifacts(gen.files) = gen.before

\* the artifact at that target holds all of what the run found there or all
\* of what the run emitted
OldOrNew(g, target) ==
  /\ g.files[target] = Absent \/ isComplete(g.files[target])
  /\ \/ g.files[target] = g.before[target]
     \/ g.result # Null /\ g.files[target] = g.result[target]

\* C14: after every step each artifact is whole, the content the run found or
\* the content it emitted; a page that loads during regeneration gets one of
\* those two schema documents, and fails to load only when there is no schema
\* document at all; a run that failed has left the schema document as it was.
C14_AtomicReplacement ==
  [][/\ \A target \in Targets : OldOrNew(gen', target)
     /\ (initPc = "fetching" /\ initPc' = "loaded")
          => /\ state'.ontology # Null
             /\ \/ state'.ontology = documentOf(gen.before.schema)
                \/ gen.result # Null /\ state'.ontology = documentOf(gen.result.schema)
     /\ (initPc = "fetching" /\ initPc' = "failed") => gen.files.schema = Absent
     /\ (gen'.pc = "done" /\ gen'.exit # 0) => gen'.files.schema = gen'.before.schema]_vars

\* C14: the page loaded the earlier schema document while the new one was
\* half written to its temporary path, and the run then failed with the
\* ontology document already replaced.
C14_Witness ==
  /\ gen.pc = "done" /\ gen.exit # 0
  /\ gen.before.schema # Absent
  /\ gen.files.ontology # gen.before.ontology
  /\ gen.files.schemaTmp # Absent /\ ~isComplete(gen.files.schemaTmp)
  /\ initPc = "loaded" /\ state.ontology = documentOf(gen.before.schema)

\* the positions in `declared` of the first declaration of every property of
\* that kind, in the order of the property list
FirstDeclarations(properties, kind, declared) ==
  With(SelectSeq(properties, LAMBDA p : p.kind = kind),
       LAMBDA listed :
         [i \in 1..Len(listed) |->
            CHOOSE k \in 1..Len(declared) :
              /\ declared[k] = <<listed[i].declared, listed[i].range>>
              /\ \A j \in 1..(k - 1) : declared[j] # declared[k]])

\* the fields that are no foreign keys, as <<name, type>>, in source order
DeclaredFields(ir) ==
  Concat([i \in 1..Len(ir.entities) |->
            With(SelectSeq(ir.entities[i].fields, LAMBDA f : ~isForeignKey(f.name)),
                 LAMBDA fields : [k \in 1..Len(fields) |->
                                    <<fields[k].name, fields[k].type>>])])

\* the relationships as <<verb phrase, range class>>, in source order
DeclaredRelationships(ir) ==
  [i \in 1..Len(ir.relationships) |->
     <<ir.relationships[i].verbPhrase, PascalCase(ir.relationships[i].right)>>]

Increasing(positions) ==
  \A i, j \in 1..Len(positions) : i < j => positions[i] < positions[j]

\* C15: a run that succeeds leaves exactly the two documents it emitted, with
\* the classes in the order of the entity blocks and the properties of each
\* kind in the order of their first declaration, and nothing at the temporary
\* paths; when the last successful run was on the same source, both
\* documents are identical to the ones that run left.
C15_DeterministicIdempotent ==
  [][(gen.pc = "emitting" /\ gen'.pc = "done" /\ gen'.exit = 0) =>
       /\ Artifacts(gen'.files) = ArtifactsOf(gen.result)
       /\ gen'.files.ontologyTmp = Absent /\ gen'.files.schemaTmp = Absent
       /\ \A document \in {documentOf(gen'.files.schema)} :
            /\ [i \in 1..Len(document.classes) |-> document.classes[i].name]
                 = [i \in 1..Len(gen.result.ir.entities) |->
                      PascalCase(gen.result.ir.entities[i].name)]
            /\ [i \in 1..Len(document.properties) |-> document.properties[i].name]
                 = [i \in 1..Len(gen.result.model.properties) |->
                      gen.result.model.properties[i].name]
       /\ Increasing(FirstDeclarations(gen.result.model.properties, "datatype",
                                       DeclaredFields(gen.result.ir)))
       /\ Increasing(FirstDeclarations(gen.result.model.properties, "object",
                                       DeclaredRelationships(gen.result.ir)))
       /\ (gen.previous # Null /\ gen.previous.source = gen.source)
            => /\ gen'.files.ontology = gen.previous.ontology
               /\ gen'.files.schema = gen.previous.schema]_vars

\* C15: a second run on the source of the last successful run has succeeded
\* and left the schema document as it found it.
C15_Witness ==
  /\ gen.pc = "done" /\ gen.exit = 0 /\ gen.runs = 2
  /\ gen.previous # Null /\ gen.previous.source = gen.source
  /\ gen.files.schema = gen.before.schema /\ gen.before.schema # Absent
  /\ Len(gen.result.model.properties) > 2

(***************************************************************************)
(* Properties of the Ontology Model                                        *)
(***************************************************************************)
\* the source read line by line, without the parser: the names of its entity
\* blocks, and its relationship lines as <<left, right, verb phrase>>
BlockNames(lines) ==
  {Tokens(lines[k])[1] :
     k \in {i \in 1..Len(lines) : Len(Tokens(lines[i])) = 2 /\ Tokens(lines[i])[2] = "{"}}
RelationshipLines(lines) ==
  With(SelectSeq(lines, LAMBDA line : Len(Tokens(line)) = 5 /\ Tokens(line)[4] = ":"),
       LAMBDA edges : [i \in 1..Len(edges) |->
                         With(Tokens(edges[i]), LAMBDA t : <<t[1], t[3], t[5]>>)])

\* the entities that relationship lines name and no block declares
Dangling(lines) ==
  UNION {{r[1], r[2]} : r \in Range(RelationshipLines(lines))} \ BlockNames(lines)

\* two relationship lines use the same verb phrase
RepeatsVerb(lines) ==
  With(RelationshipLines(lines),
       LAMBDA edges : \E i, j \in 1..Len(edges) : i < j /\ edges[i][3] = edges[j][3])

ClassNames(model) == {model.classes[i].name : i \in 1..Len(model.classes)}

\* every domain class and every object range is a class of the model
Closed(model) ==
  \A p \in Range(model.properties) :
    /\ Range(p.domain) \subseteq ClassNames(model)
    /\ p.kind = "object" => p.range \in ClassNames(model)

\* C16: after a run on any arrangement of entity blocks and relationship
\* lines, a model that was built is referentially closed; a source in which
\* the only fault is a relationship naming an undeclared entity yields no
\* model and a SemanticError that names such an entity; a source whose
\* relationships name declared entities only, before or after the line, and
\* repeat no verb phrase, does yield a model.
C16_ReferentiallyClosed ==
  gen.pc # "idle" =>
    /\ gen.result # Null => Closed(gen.result.model)
    /\ (gen.source \in ChunkSources /\ Dangling(gen.source) # {})
         => /\ gen.result = Null /\ gen.error.kind = "SemanticError"
            /\ RepeatsVerb(gen.source) \/ gen.error.cites \in Dangling(gen.source)
    /\ (gen.source \in ChunkSources /\ Dangling(gen.source) = {}
          /\ ~RepeatsVerb(gen.source))
         => gen.result # Null

\* C16: a model was built from a source whose first line is a relationship
\* between entities declared further down.
C16_Witness ==
  /\ gen.pc = "emitting" /\ gen.result # Null
  /\ Len(Tokens(gen.source[1])) = 5
  /\ \E p \in Range(gen.result.model.properties) : p.kind = "object"

\* the sources whose blocks and relationship lines are well formed and whose
\* relationships name declared entities only
WellFormedSources ==
  ValidSources \cup {lines \in ChunkSources : Dangling(lines) = {}}

\* the relationship <<left, right, verb phrase>> has exactly one property of
\* its name in the model, and that one is the object property from the class
\* of left to the class of right
Materialized(model, r) ==
  With({i \in 1..Len(model.properties) : model.properties[i].name = camelCase(r[3])},
       LAMBDA named :
         /\ Cardinality(named) = 1
         /\ \A i \in named :
              /\ model.properties[i].kind = "object"
              /\ model.properties[i].domain = <<PascalCase(r[1])>>
              /\ model.properties[i].range = PascalCase(r[2]))

\* C17: after a run on a well-formed source, the repository's diagram among
\* them, a model was built, and every relationship line of the source has
\* exactly one property of its transformed verb phrase in it: an object
\* property with the class of the left entity as its only domain class and
\* the class of the right entity as its range.
C17_OnePropertyPerRelationship ==
  (gen.pc # "idle" /\ gen.source \in WellFormedSources) =>
    /\ gen.result # Null
    /\ \A r \in Range(RelationshipLines(gen.source)) : Materialized(gen.result.model, r)

\* the fields of the parsed source as <<class, field>>
FieldsOf(ir) ==
  UNION {{<<PascalCase(ir.entities[i].name), ir.entities[i].fields[k]>> :
            k \in 1..Len(ir.entities[i].fields)} : i \in 1..Len(ir.entities)}

EndsInId(name) == Len(name) >= 3 /\ SubSeq(name, Len(name) - 2, Len(name)) = "_id"

DatatypeProperties(model) == {p \in Range(model.properties) : p.kind = "datatype"}

\* C18: in every model built, a declared field whose name ends in _id has no
\* datatype property, neither one made from it nor one of its transformed
\* name, and every other declared field has a datatype property of its
\* transformed name and type whose domain contains the class of the entity
\* that declares it.
C18_ForeignKeyExclusion ==
  gen.result # Null =>
    \A cf \in FieldsOf(gen.result.ir) :
      IF EndsInId(cf[2].name)
      THEN \A p \in DatatypeProperties(gen.result.model) :
             p.declared # cf[2].name /\ p.name # camelCase(cf[2].name)
      ELSE \E p \in DatatypeProperties(gen.result.model) :
             /\ p.name = camelCase(cf[2].name) /\ p.declared = cf[2].name
             /\ p.range = cf[2].type
             /\ cf[1] \in Range(p.domain)

\* C18: a model was built from a source in which one entity declares both a
\* field ending in _id and the field `id`.
C18_Witness ==
  /\ gen.result # Null
  /\ \E cf, cg \in FieldsOf(gen.result.ir) :
       cf[1] = cg[1] /\ EndsInId(cf[2].name) /\ cg[2].name = "id"
  /\ DatatypeProperties(gen.result.model) # {}

\* the classes that declare the field, in the order of their entity blocks
DeclaringClasses(ir, field) ==
  With(SelectSeq(ir.entities, LAMBDA e : field \in Range(e.fields)),
       LAMBDA entities : [i \in 1..Len(entities) |-> PascalCase(entities[i].name)])

\* C19: in every model built, each non-foreign-key field, taken with its
\* source name and type, has exactly one datatype property, and the domain of
\* that property lists the classes that declare the field in declaration
\* order; so a field declared alike by several classes is one property, and
\* fields that differ in source name or type are separate entries that each
\* keep their own type and classes, also when their transformed names agree.
C19_MergeRule ==
  gen.result # Null =>
    \A cf \in FieldsOf(gen.result.ir) :
      ~EndsInId(cf[2].name) =>
        With({i \in 1..Len(gen.result.model.properties) :
                /\ gen.result.model.properties[i].kind = "datatype"
                /\ gen.result.model.properties[i].declared = cf[2].name
                /\ gen.result.model.properties[i].range = cf[2].type},
             LAMBDA entries :
               /\ Cardinality(entries) = 1
               /\ \A i \in entries :
                    /\ gen.result.model.properties[i].name = camelCase(cf[2].name)
                    /\ gen.result.model.properties[i].domain
                         = DeclaringClasses(gen.result.ir, cf[2]))

\* C19: a model was built in which one datatype property has two classes in
\* its domain and two datatype properties share a name and differ in type.
C19_Witness ==
  /\ gen.result # Null
  /\ \E p \in DatatypeProperties(gen.result.model) : Len(p.domain) >= 2
  /\ \E p, q \in DatatypeProperties(gen.result.model) :
       p.name = q.name /\ p.range # q.range

(***************************************************************************)
(* Properties of the Instance Validator                                    *)
(***************************************************************************)
\* the classes of the stored nodes with that id
ClassesOf(nodes, id) == {node.class : node \in {n \in Range(nodes) : n.id = id}}

\* the edge's type names an object property of the schema whose domain holds
\* the class of the `from` node and whose range is the class of the `to` node
Conforms(schema, nodes, edge) ==
  \E p \in Range(schema.properties) :
    /\ p.kind = "object" /\ p.name = edge.type
    /\ ClassesOf(nodes, edge.from) \cap Range(p.domain) # {}
    /\ p.range \in ClassesOf(nodes, edge.to)

LastOf(s) == s[Len(s)]

\* C20: whenever the tool handles the next instance of its batch and that is
\* an edge, the edge is added to the store if and only if it conforms to the
\* schema document and the nodes stored so far; an edge that does not is
\* reported with at least one violation, and leaves the store as it was. In
\* either case the nodes and edges stored before remain, the instance is
\* reported under its id, and the tool goes on to the instance after it.
C20_EdgeValidation ==
  [][(gen.ingest.pc = "loading" /\ gen.ingest.batch[gen.ingest.next].kind = "edge") =>
       With(gen.ingest.batch[gen.ingest.next].value,
            LAMBDA edge :
              /\ gen'.ingest.next = gen.ingest.next + 1
              /\ gen'.ingest.batch = gen.ingest.batch
              /\ gen'.ingest.pc = IF gen.ingest.next < Len(gen.ingest.batch)
                                  THEN "loading" ELSE "done"
              /\ Len(gen'.ingest.report) = Len(gen.ingest.report) + 1
              /\ SubSeq(gen'.ingest.report, 1, Len(gen.ingest.report)) = gen.ingest.report
              /\ LastOf(gen'.ingest.report).id = edge.id
              /\ gen'.store.nodes = gen.store.nodes
              /\ IF Conforms(documentOf(gen.files.schema), gen.store.nodes, edge)
                 THEN /\ gen'.store.edges = Append(gen.store.edges, edge)
                      /\ LastOf(gen'.ingest.report).violations = <<>>
                 ELSE /\ gen'.store.edges = gen.store.edges
                      /\ LastOf(gen'.ingest.report).violations # <<>>)]_vars

\* C20: a batch is through in which a memberOf edge from a Campaign node was
\* rejected for its domain, an edge with the right domain and the wrong range
\* was rejected, and an edge after both was accepted.
C20_Witness ==
  /\ gen.ingest.pc = "done"
  /\ \E i, j, k \in 1..Len(gen.ingest.report) :
       /\ i < k /\ j < k
       /\ gen.ingest.batch[i].kind = "edge" /\ gen.ingest.batch[i].value.type = "memberOf"
       /\ Violation("domain", "Campaign") \in Range(gen.ingest.report[i].violations)
       /\ gen.ingest.batch[j].kind = "edge"
       /\ \E v \in Range(gen.ingest.report[j].violations) : v.rule = "range"
       /\ \A v \in Range(gen.ingest.report[j].violations) : v.rule # "domain"
       /\ gen.ingest.batch[k].kind = "edge"
       /\ gen.ingest.report[k].violations = <<>>
       /\ gen.ingest.batch[k].value \in Range(gen.store.edges)

(***************************************************************************)
(* Properties of the explorer's view                                       *)
(***************************************************************************)
\* every id the graph mentions, as a node or as an end of an edge
GraphIds(s) ==
  {s.graph.nodes[i].id : i \in 1..Len(s.graph.nodes)}
  \cup UNION {{s.graph.edges[i].from, s.graph.edges[i].to} : i \in 1..Len(s.graph.edges)}

\* an edge joins a and b, in either direction
Adjacent(s, a, b) ==
  \E edge \in Range(s.graph.edges) :
    \/ edge.from = a /\ edge.to = b
    \/ edge.from = b /\ edge.to = a

\* the ids at most n undirected hops away from one of ids
RECURSIVE WithinHops(_, _, _)
WithinHops(s, ids, n) ==
  IF n = 0 THEN ids
  ELSE With(WithinHops(s, ids, n - 1),
            LAMBDA near : near \cup {b \in GraphIds(s) : \E a \in near : Adjacent(s, a, b)})

\* the number of hops a depth stands for; no shortest path is longer than
\* the number of ids
HopsOf(s, depth) == IF depth = Infinity THEN Cardinality(GraphIds(s)) ELSE depth

\* the ids of the nodes whose class, id or a property value contains the
\* search term, case-insensitively
Matching(s) ==
  {node.id : node \in {n \in Range(s.graph.nodes) : NodeMatches(n, ToLower(s.searchTerm))}}

\* C21: once the page is loaded, whenever the search term is not empty every
\* node in the rendered view lies within state.searchDepth undirected hops of
\* a node that matches the term; so the view is empty when no node matches.
C21_SearchNarrows ==
  (initPc = "loaded" /\ state.searchTerm # "") =>
    Range(rendered.nodes)
      \subseteq WithinHops(state, Matching(state), HopsOf(state, state.searchDepth))

\* the node passes every restriction that is active
InView(s, node) ==
  /\ s.focusId # "" => (node.id = s.focusId \/ Adjacent(s, s.focusId, node.id))
  /\ (s.searchTerm # "" /\ Matching(s) # {})
       => node.id \in WithinHops(s, Matching(s), HopsOf(s, s.searchDepth))
  /\ s.filter # "All" => node.class = s.filter

\* C24: once the page is loaded, whatever the user did in whatever order,
\* filteredNodes() is the graph's nodes, in stored order, that are the focus
\* node or a direct neighbour of it when a focus is set, within
\* state.searchDepth hops of a match when the search term has a match, and
\* of class state.filter when that is not "All"; the graph view shows exactly
\* those nodes.
C24_IntersectionOfRestrictions ==
  initPc = "loaded" =>
    /\ filteredNodes(state) = SelectSeq(state.graph.nodes, LAMBDA node : InView(state, node))
    /\ state.view = "graph" => rendered.nodes = Ids(filteredNodes(state))

\* C24: a focus, a search with a match at depth 0 and a class filter are all
\* set, and the view has a node and not all of the focus node's neighbours.
C24_Witness ==
  /\ initPc = "loaded" /\ state.view = "graph"
  /\ state.focusId # "" /\ state.filter # "All"
  /\ state.searchTerm # "" /\ Matching(state) # {} /\ state.searchDepth = 0
  /\ rendered.nodes # <<>>
  /\ \E node \in Range(state.graph.nodes) :
       /\ Adjacent(state, state.focusId, node.id)
       /\ node.id \notin Range(rendered.nodes)

\* C25: when expandFromIds(ids, depth) has returned, on any graph, its result
\* is the set of ids at most `depth` undirected hops away from `ids`: `ids`
\* themselves for depth 0, and for Infinity everything connected to `ids`,
\* which the step bound edges.length does not cut short.
C25_ExpandIsBoundedReachability ==
  (call.pc = "returned" /\ call.fn = "expandFromIds") =>
    With([graph |-> call.graph],
         LAMBDA s :
           /\ call.result = WithinHops(s, call.ids, HopsOf(s, call.depth))
           /\ call.ids \subseteq call.result
           /\ call.depth = 0 => call.result = call.ids
           /\ call.depth = Infinity
                => \A a \in call.result, b \in GraphIds(s) :
                     Adjacent(s, a, b) => b \in call.result)

\* C25: the call has returned for depth Infinity and one start node on a path
\* of three edges, and the result has the node three hops away.
C25_Witness ==
  /\ call.pc = "returned" /\ call.fn = "expandFromIds"
  /\ call.depth = Infinity /\ Cardinality(call.ids) = 1
  /\ Len(call.graph.edges) = 3
  /\ call.result # WithinHops([graph |-> call.graph], call.ids, 2)
  /\ Cardinality(call.result) = 4

\* C26: no handler of the explorer page has ended in a TypeError on
\* state.ontology or state.graph: whenever render(), an export or
\* buildContextFromGraph() runs, both documents are loaded.
C26_NoDereferenceBeforeLoad ==
  /\ out.kind # "error"
  /\ out.kind = "alert" => out.text # "Error: TypeError"

(***************************************************************************)
(* Properties of the text-analysis page: runs in flight                    *)
(***************************************************************************)
\* the analyzeText() runs that have started and neither finished nor failed
Pending == {c \in Runs : ta.run[c].pc # "idle"}

\* C27: at most one analyzeText() run is pending at any time, and analyzeBtn
\* is disabled for as long as one is.
C27_OneAnalysisInFlight ==
  /\ Cardinality(Pending) <= 1
  /\ Pending # {} => ta.analyzeBtnDisabled

(***************************************************************************)
(* Properties of the post-processing functions                             *)
(***************************************************************************)
\* the positions of the first ten labels of the answer that score above
\* CONFIDENCE_THRESHOLD
TopTen(classification) ==
  With({i \in 1..Len(classification.labels) : classification.scores[i] * 10 > ScoreUnit},
       LAMBDA above : {i \in above : Cardinality({j \in above : j < i}) < 10})

\* the letters a to z of the text in lower case
Letters(text) ==
  With(ToLower(text),
       LAMBDA lower :
         With(SelectSeq([i \in 1..Len(lower) |-> CharAt(lower, i)],
                        LAMBDA c : \E k \in 1..Len(LowerChars) : CharAt(LowerChars, k) = c),
              LAMBDA kept : join(kept, "")))

\* one of the two contains the other, or the type has more than three letters
\* and the label begins with the first three
Similar(label, type) ==
  \/ Includes(Letters(label), Letters(type))
  \/ Includes(Letters(type), Letters(label))
  \/ Len(Letters(type)) > 3 /\ SubSeq(Letters(label), 1, 3) = SubSeq(Letters(type), 1, 3)

\* the label the entity type is mapped to, "" when no label is similar
ChosenLabel(classification, type) ==
  With({i \in TopTen(classification) : Similar(classification.labels[i], type)},
       LAMBDA similar :
         IF similar = {} THEN ""
         ELSE classification.labels[CHOOSE i \in similar : \A j \in similar : i <= j])

TextBetween(text, a, b) == SubSeq(text, Min(a, b) + 1, Max(a, b))

\* the k-th smallest element of a set of numbers
Kth(S, k) == CHOOSE e \in S : Cardinality({x \in S : x <= e}) = k

\* the entity that stands for the input entities a to b: the one entity, or
\* the text from the start of the first to the end of the last
Covering(entities, text, a, b) ==
  [start |-> entities[a].start, end |-> entities[b].end,
   word |-> IF a = b THEN entities[a].word
            ELSE TextBetween(text, entities[a].start, entities[b].end)]

WordStartsUpper(word) ==
  Len(word) > 0 /\ \E k \in 1..Len(UpperChars) : CharAt(UpperChars, k) = CharAt(word, 1)

\* the condition under which `current` and `next` may be joined
MayJoin(current, next, type) ==
  /\ next.start - current.end <= 2
  /\ \/ Len(current.word) <= 2 \/ Len(next.word) <= 2
     \/ Len(current.word) <= 4 /\ Len(next.word) <= 4
     \/ /\ type \in {"PER", "ORG"}
        /\ next.start - current.end = 1
        /\ WordStartsUpper(current.word) /\ WordStartsUpper(next.word)
        /\ Len(current.word) <= 20 /\ Len(next.word) <= 20

\* the list is the input cut into runs after the positions of `cuts`: entry k
\* covers run k, and inside a run each entity was joined to what covers the
\* entities of the run before it under MayJoin
MergedAt(result, entities, text, type, cuts) ==
  With(cuts \cup {Len(entities)},
       LAMBDA ends :
         /\ Len(result) = Cardinality(ends)
         /\ \A k \in 1..Len(result) :
              With(IF k = 1 THEN 1 ELSE Kth(ends, k - 1) + 1,
                   LAMBDA a :
                     /\ result[k].start = entities[a].start
                     /\ result[k].end = entities[Kth(ends, k)].end
                     /\ result[k].word = Covering(entities, text, a, Kth(ends, k)).word
                     /\ \A i \in a..(Kth(ends, k) - 1) :
                          MayJoin(Covering(entities, text, a, i), entities[i + 1], type)))

====
